---- MODULE Spec2Model ----
(***************************************************************************)
(* A model of the ray tracer's light transport: tuples, rays, shapes,      *)
(* intersections, the per-hit shading context, the recursive colour        *)
(* computation of World and the per-pixel render loop of Camera.           *)
(*                                                                         *)
(* Representation of the scalar type F (f64): fixed point, One units to    *)
(* 1.0, products and quotients rounded toward zero.  EPSILON is the        *)
(* smallest positive value of the representation.  The scenes the model    *)
(* draws keep every shape, ray origin and light on the y axis with rays    *)
(* running along +y or -y, where the arithmetic of the geometry is exact.  *)
(* A division by zero yields NaN, as 0.0/0.0 does.                         *)
(***************************************************************************)
EXTENDS Integers, Sequences, FiniteSets

\* ------------------------------------------------------------------ bounds
MaxDepth == 3

\* the longest list of intersections, in any order, handed to hit
MaxLen == 3

\* the longest list of intersections along one ray, in the order of t
MaxTraversal == 4

\* the most pixels of a rendered canvas
MaxPixels == 4

\* --------------------------------------------------------------- scalars F
One == 64
EPSILON == 1
NaN == 1000000000
REFLECTION_DEPTH == 5
\* f64::INFINITY: above every coordinate of a scene
INFINITY == 1000000
U8 == 256

Abs(a) == IF a < 0 THEN -a ELSE a

Sgn(a) == IF a < 0 THEN -1 ELSE 1

\* f64 multiplication: |a| * |b| / One rounded toward zero, with the sign of
\* the product; the whole and the fractional part of |a| are multiplied apart
FMul(a, b) ==
    Sgn(a) * Sgn(b) *
        ((Abs(a) \div One) * Abs(b) + ((Abs(a) % One) * Abs(b)) \div One)

\* f64 division; x / 0.0 is not a number the model computes with
FDiv(a, b) == IF b = 0 THEN NaN ELSE Sgn(a) * Sgn(b) * ((Abs(a) * One) \div Abs(b))

\* largest r in lo..hi with r * r <= n, by bisection
RECURSIVE ISqrt(_, _, _)
ISqrt(n, lo, hi) ==
    IF lo >= hi THEN lo
    ELSE LET mid == (lo + hi + 1) \div 2
         IN  IF mid * mid <= n THEN ISqrt(n, mid, hi) ELSE ISqrt(n, lo, mid - 1)

\* f64::sqrt on a non-negative argument; the root of a number of 2^18 and more
\* is taken to whole units
FSqrt(a) ==
    IF a < 262144 * One THEN ISqrt(a * One, 0, 32768)
    ELSE One * ISqrt(a \div One, 0, 32768)

RECURSIVE powi(_, _)
powi(a, n) == IF n = 0 THEN One ELSE FMul(a, powi(a, n - 1))

fuzzy_eq(a, b) == a # NaN /\ b # NaN /\ Abs(a - b) < EPSILON

\* ------------------------------------------------------------------ Tuple
Tuple(x, y, z, w) == [x |-> x, y |-> y, z |-> z, w |-> w]

pt(x, y, z) == Tuple(x, y, z, One)

v(x, y, z) == Tuple(x, y, z, 0)

is_point(t) == fuzzy_eq(t.w, One)

is_vector(t) == fuzzy_eq(t.w, 0)

TAdd(a, b) == Tuple(a.x + b.x, a.y + b.y, a.z + b.z, a.w + b.w)

TSub(a, b) == Tuple(a.x - b.x, a.y - b.y, a.z - b.z, a.w - b.w)

TNeg(a) == Tuple(-a.x, -a.y, -a.z, -a.w)

TMul(a, s) == Tuple(FMul(a.x, s), FMul(a.y, s), FMul(a.z, s), FMul(a.w, s))

TDiv(a, s) == Tuple(FDiv(a.x, s), FDiv(a.y, s), FDiv(a.z, s), FDiv(a.w, s))

dot(a, b) == FMul(a.x, b.x) + FMul(a.y, b.y) + FMul(a.z, b.z) + FMul(a.w, b.w)

magnitude(a) == FSqrt(FMul(a.x, a.x) + FMul(a.y, a.y) + FMul(a.z, a.z) + FMul(a.w, a.w))

normalize(a) == TDiv(a, magnitude(a))

\* no coordinate of the tuple is NaN
IsNumber(a) == a.x # NaN /\ a.y # NaN /\ a.z # NaN

\* a tuple of NaN
NotANumber == Tuple(NaN, NaN, NaN, NaN)

reflect(a, normal) == TSub(a, TMul(TMul(normal, 2 * One), dot(a, normal)))

\* ------------------------------------------------------------------ Color
color(r, g, b) == [red |-> r, green |-> g, blue |-> b]

BLACK == color(0, 0, 0)

WHITE == color(One, One, One)

CAdd(a, b) == color(a.red + b.red, a.green + b.green, a.blue + b.blue)

CMul(a, s) == color(FMul(a.red, s), FMul(a.green, s), FMul(a.blue, s))

CMulC(a, b) == color(FMul(a.red, b.red), FMul(a.green, b.green), FMul(a.blue, b.blue))

RECURSIVE CSum(_)
CSum(cs) == IF cs = <<>> THEN BLACK ELSE CAdd(CSum(SubSeq(cs, 1, Len(cs) - 1)), cs[Len(cs)])

\* --------------------------------------------------------------- Material
Material(c, ambient, diffuse, specular, shininess, reflective, transparency, refractive_index) ==
    [color |-> c, ambient |-> ambient, diffuse |-> diffuse, specular |-> specular,
     shininess |-> shininess, reflective |-> reflective, transparency |-> transparency,
     refractive_index |-> refractive_index]

\* ----------------------------------------------------------------- Matrix
\* The transforms of the scenes are translation(tx, ty, tz) * scaling(s, s, s);
\* a matrix of that family is kept as its scale and its translation column.
Matrix(s, tx, ty, tz) == [s |-> s, tx |-> tx, ty |-> ty, tz |-> tz]

identity == Matrix(One, 0, 0, 0)

translation(x, y, z) == Matrix(One, x, y, z)

scaling(s) == Matrix(s, 0, 0, 0)

is_invertible(m) == m.s # 0

inverse(m) ==
    Matrix(FDiv(One, m.s), -FDiv(m.tx, m.s), -FDiv(m.ty, m.s), -FDiv(m.tz, m.s))

\* matrix * tuple
MMul(m, t) ==
    Tuple(FMul(m.s, t.x) + FMul(m.tx, t.w), FMul(m.s, t.y) + FMul(m.ty, t.w),
          FMul(m.s, t.z) + FMul(m.tz, t.w), t.w)

\* matrix.transpose() * tuple
MTransposeMul(m, t) ==
    Tuple(FMul(m.s, t.x), FMul(m.s, t.y), FMul(m.s, t.z),
          FMul(m.tx, t.x) + FMul(m.ty, t.y) + FMul(m.tz, t.z) + t.w)

\* -------------------------------------------------------------------- Ray
Ray(origin, direction) == [origin |-> origin, direction |-> direction]

\* an assertion that looks at the origin alone
RayOkOriginOnly(origin, direction) == is_point(origin)

\* the assertion of Ray::new
RayOk(origin, direction) == is_point(origin) /\ is_vector(direction)

position(ray, t) == TAdd(ray.origin, TMul(ray.direction, t))

RayTransform(ray, m) == Ray(MMul(m, ray.origin), MMul(m, ray.direction))

\* ------------------------------------------------------------------ Shape
\* id stands for the address of the shape object: two shapes of a world are
\* two objects even when kind, transform and material agree.
Shape(id, kind, transform, material) ==
    [id |-> id, kind |-> kind, transform |-> transform, material |-> material]

Intersection(t, object) == [t |-> t, object |-> object]

shape_eq(a, b) == a.kind = b.kind

\* impl PartialEq for dyn Shape
ShapeEq(a, b) ==
    /\ a.material = b.material
    /\ a.transform = b.transform
    /\ shape_eq(a, b)

\* derived PartialEq of Intersection
IntersectionEq(a, b) == a.t = b.t /\ ShapeEq(a.object, b.object)

SphereLocalIntersect(shape, ray) ==
    LET sphere_to_ray == TSub(ray.origin, pt(0, 0, 0))
        a == dot(ray.direction, ray.direction)
        b == 2 * dot(ray.direction, sphere_to_ray)
        c == dot(sphere_to_ray, sphere_to_ray) - One
        discriminant == FMul(b, b) - 4 * FMul(a, c)
    IN  IF discriminant < 0 THEN <<>>
        ELSE <<Intersection(FDiv(-b - FSqrt(discriminant), 2 * a), shape),
               Intersection(FDiv(-b + FSqrt(discriminant), 2 * a), shape)>>

PlaneLocalIntersect(shape, ray) ==
    IF Abs(ray.direction.y) < EPSILON THEN <<>>
    ELSE <<Intersection(FDiv(-ray.origin.y, ray.direction.y), shape)>>

local_intersect(shape, ray) ==
    IF shape.kind = "sphere" THEN SphereLocalIntersect(shape, ray)
    ELSE PlaneLocalIntersect(shape, ray)

\* f64::max
Max(a, b) == IF a >= b THEN a ELSE b

\* Cube::local_normal_at
CubeLocalNormalAt(point) ==
    LET maxc == Max(Max(Abs(point.x), Abs(point.y)), Abs(point.z))
    IN  IF maxc = Abs(point.x) THEN v(point.x, 0, 0)
        ELSE IF maxc = Abs(point.y) THEN v(0, point.y, 0)
        ELSE v(0, 0, point.z)

\* Cylinder::local_normal_at
CylinderLocalNormalAt(shape, point) ==
    LET dist == powi(point.x, 2) + powi(point.z, 2)
    IN  IF dist < One /\ point.y > shape.maximum - EPSILON THEN v(0, One, 0)
        ELSE IF dist < One /\ point.y < shape.minimum + EPSILON THEN v(0, -One, 0)
        ELSE v(point.x, 0, point.z)

\* Cone::local_normal_at
ConeLocalNormalAt(shape, point) ==
    LET dist == powi(point.x, 2) + powi(point.z, 2)
    IN  IF dist < One /\ point.y > shape.maximum - EPSILON THEN v(0, One, 0)
        ELSE IF dist < One /\ point.y < shape.minimum + EPSILON THEN v(0, -One, 0)
        ELSE LET y == FSqrt(powi(point.x, 2) + powi(point.z, 2))
             IN  v(point.x, IF point.y > 0 THEN -y ELSE y, point.z)

local_normal_at(shape, point) ==
    CASE shape.kind = "sphere" -> TSub(point, pt(0, 0, 0))
      [] shape.kind = "cube" -> CubeLocalNormalAt(point)
      [] shape.kind = "cylinder" -> CylinderLocalNormalAt(shape, point)
      [] shape.kind = "cone" -> ConeLocalNormalAt(shape, point)
      [] OTHER -> v(0, One, 0)

\* Shape::intersect
intersect(shape, ray) ==
    local_intersect(shape, RayTransform(ray, inverse(shape.transform)))

\* Shape::normal_at
normal_at(shape, point) ==
    LET local_point == MMul(inverse(shape.transform), point)
        local_normal == local_normal_at(shape, local_point)
        world_normal == MTransposeMul(inverse(shape.transform), local_normal)
    IN  normalize([world_normal EXCEPT !.w = 0])

\* ----------------------------------------------------------- Intersections
\* Ord for Intersection compares t alone
Less(a, b) == a.t < b.t

\* Intersections::hit: the index in the list of the first least element among those
\* with t >= 0 (Iterator::min_by keeps the earlier of two equal elements);
\* 0 stands for None.
\* a hit that takes t = 0 for behind the ray
RECURSIVE HitFromPositive(_, _, _)
HitFromPositive(is, i, best) ==
    IF i > Len(is) THEN best
    ELSE IF is[i].t > 0 /\ (best = 0 \/ Less(is[i], is[best]))
         THEN HitFromPositive(is, i + 1, i)
         ELSE HitFromPositive(is, i + 1, best)

\* a hit that keeps the later of two intersections with the same t
RECURSIVE HitFromLast(_, _, _)
HitFromLast(is, i, best) ==
    IF i > Len(is) THEN best
    ELSE IF is[i].t >= 0 /\ (best = 0 \/ ~Less(is[best], is[i]))
         THEN HitFromLast(is, i + 1, i)
         ELSE HitFromLast(is, i + 1, best)

RECURSIVE HitFrom(_, _, _)
HitFrom(is, i, best) ==
    IF i > Len(is) THEN best
    ELSE IF is[i].t >= 0 /\ (best = 0 \/ Less(is[i], is[best]))
         THEN HitFrom(is, i + 1, i)
         ELSE HitFrom(is, i + 1, best)

\* a hit that takes the first intersection of the list, whatever its t
hitFirst(is) == IF is = <<>> THEN 0 ELSE 1

hit(is) == HitFrom(is, 1, 0)

\* Vec::iter().position(|&o| o == object): 0 stands for None
RECURSIVE PositionFrom(_, _, _)
PositionFrom(containers, object, i) ==
    IF i > Len(containers) THEN 0
    ELSE IF ShapeEq(containers[i], object) THEN i
         ELSE PositionFrom(containers, object, i + 1)

Remove(containers, index) ==
    SubSeq(containers, 1, index - 1) \o SubSeq(containers, index + 1, Len(containers))

\* entering or leaving the shape of intersection i
Toggle(containers, object) ==
    LET index == PositionFrom(containers, object, 1)
    IN  IF index # 0 THEN Remove(containers, index) ELSE Append(containers, object)

LastIndex(containers, default) ==
    IF containers = <<>> THEN default
    ELSE containers[Len(containers)].material.refractive_index

\* the loop of prepare_computations over the intersections from index i on
RECURSIVE Containers(_, _, _, _)
Containers(self, intersections, i, containers) ==
    IF i > Len(intersections) THEN [n1 |-> One, n2 |-> One]
    ELSE LET x == intersections[i]
             after == Toggle(containers, x.object)
         IN  IF IntersectionEq(x, self)
             THEN [n1 |-> LastIndex(containers, One), n2 |-> LastIndex(after, One)]
             ELSE Containers(self, intersections, i + 1, after)

\* what prepare_computations makes of the normal of the object at the point;
\* a NaN normal compares false, and what is computed from it is NaN
CompsOfNormal(self, ray, point, normal, n) ==
    LET eyev == TNeg(ray.direction)
    IN  IF ~IsNumber(normal)
        THEN [t |-> self.t, object |-> self.object, point |-> point,
              over_point |-> NotANumber, under_point |-> NotANumber,
              eyev |-> eyev, normalv |-> normal, inside |-> FALSE,
              reflectv |-> NotANumber, n1 |-> n.n1, n2 |-> n.n2]
        ELSE IF dot(normal, eyev) < 0
        THEN [t |-> self.t, object |-> self.object, point |-> point,
              over_point |-> TAdd(point, TMul(TNeg(normal), EPSILON)),
              under_point |-> TSub(point, TMul(TNeg(normal), EPSILON)),
              eyev |-> eyev, normalv |-> TNeg(normal), inside |-> TRUE,
              reflectv |-> reflect(ray.direction, TNeg(normal)),
              n1 |-> n.n1, n2 |-> n.n2]
        ELSE [t |-> self.t, object |-> self.object, point |-> point,
              over_point |-> TAdd(point, TMul(normal, EPSILON)),
              under_point |-> TSub(point, TMul(normal, EPSILON)),
              eyev |-> eyev, normalv |-> normal, inside |-> FALSE,
              reflectv |-> reflect(ray.direction, normal),
              n1 |-> n.n1, n2 |-> n.n2]

\* Intersection::prepare_computations: point, normal and containers are
\* computed once each
prepare_computations(self, ray, intersections) ==
    CHOOSE comps \in
        { CompsOfNormal(self, ray, p, normal_at(self.object, p), n) :
            p \in {position(ray, self.t)},
            n \in {Containers(self, intersections, 1, <<>>)} } : TRUE

schlickOfCos(comps) ==
    LET cos == dot(comps.eyev, comps.normalv)
        n == FDiv(comps.n1, comps.n2)
        sin2_t == FMul(powi(n, 2), One - powi(cos, 2))
        r0 == powi(FDiv(comps.n1 - comps.n2, comps.n1 + comps.n2), 2)
    IN  IF comps.n1 > comps.n2 /\ sin2_t > One THEN One
        ELSE r0 + FMul(One - r0, powi(One - cos, 5))

\* Comps::schlick
schlick(comps) ==
    LET cos == dot(comps.eyev, comps.normalv)
        n == FDiv(comps.n1, comps.n2)
        sin2_t == FMul(powi(n, 2), One - powi(cos, 2))
        c == IF comps.n1 > comps.n2 THEN FSqrt(One - sin2_t) ELSE cos
        r0 == powi(FDiv(comps.n1 - comps.n2, comps.n1 + comps.n2), 2)
    IN  IF comps.n1 > comps.n2 /\ sin2_t > One THEN One
        ELSE r0 + FMul(One - r0, powi(One - c, 5))

\* ------------------------------------------------------------- PointLight
PointLight(p, intensity) == [position |-> p, intensity |-> intensity]

\* ---------------------------------------------------------------- Pattern
Pattern(design, a, b, transform) ==
    [design |-> design, a |-> a, b |-> b, transform |-> transform]

stripe(a, b) == Pattern("Stripe", a, b, identity)

gradient(a, b) == Pattern("Gradient", a, b, identity)

\* f64::floor
Floor(a) == (a \div One) * One

\* Pattern::color_at, for the designs Stripe and Gradient
pattern_color_at(pattern, point) ==
    IF pattern.design = "Stripe"
    THEN IF (Floor(point.x) \div One) % 2 = 0 THEN pattern.a ELSE pattern.b
    ELSE LET fraction == point.x - Floor(point.x)
         IN  CAdd(pattern.a,
                  CMul(color(pattern.b.red - pattern.a.red,
                             pattern.b.green - pattern.a.green,
                             pattern.b.blue - pattern.a.blue), fraction))

color_at_object(pattern, object, world_point) ==
    LET object_point == MMul(inverse(object.transform), world_point)
        pattern_point == MMul(inverse(pattern.transform), object_point)
    IN  pattern_color_at(pattern, pattern_point)

\* a material without the field pattern has the pattern None
lightingWithDiffuse(material, object, light, point, eyev, normalv, in_shadow) ==
    LET c == IF "pattern" \in DOMAIN material
             THEN color_at_object(material.pattern, object, point)
             ELSE material.color
        effective_color == CMulC(c, light.intensity)
        lightv == normalize(TSub(light.position, point))
        ambient_light == CMul(effective_color, material.ambient)
        light_dot_normal == dot(lightv, normalv)
        reflectv == TNeg(reflect(lightv, normalv))
        reflect_dot_eye == dot(reflectv, eyev)
        diffuse_light ==
            IF light_dot_normal < 0 THEN BLACK
            ELSE CMul(CMul(effective_color, material.diffuse), light_dot_normal)
        specular_light ==
            IF light_dot_normal < 0 \/ reflect_dot_eye <= 0 THEN BLACK
            ELSE CMul(CMul(light.intensity, material.specular),
                      powi(reflect_dot_eye, material.shininess))
    IN  IF in_shadow THEN CAdd(ambient_light, diffuse_light)
        ELSE CAdd(CAdd(ambient_light, diffuse_light), specular_light)

\* a lighting that does not ask on which side of the surface the light is
lightingBothSides(material, object, light, point, eyev, normalv, in_shadow) ==
    LET c == IF "pattern" \in DOMAIN material
             THEN color_at_object(material.pattern, object, point)
             ELSE material.color
        effective_color == CMulC(c, light.intensity)
        lightv == normalize(TSub(light.position, point))
        ambient_light == CMul(effective_color, material.ambient)
        light_dot_normal == dot(lightv, normalv)
        reflect_dot_eye == dot(TNeg(reflect(lightv, normalv)), eyev)
        diffuse_light == CMul(CMul(effective_color, material.diffuse), light_dot_normal)
        specular_light ==
            IF reflect_dot_eye <= 0 THEN BLACK
            ELSE CMul(CMul(light.intensity, material.specular),
                      powi(reflect_dot_eye, material.shininess))
    IN  IF in_shadow THEN ambient_light
        ELSE CAdd(CAdd(ambient_light, diffuse_light), specular_light)

\* Material::lighting
lighting(material, object, light, point, eyev, normalv, in_shadow) ==
    LET c == IF "pattern" \in DOMAIN material
             THEN color_at_object(material.pattern, object, point)
             ELSE material.color
        effective_color == CMulC(c, light.intensity)
        lightv == normalize(TSub(light.position, point))
        ambient_light == CMul(effective_color, material.ambient)
        light_dot_normal == dot(lightv, normalv)
        reflectv == TNeg(reflect(lightv, normalv))
        reflect_dot_eye == dot(reflectv, eyev)
        diffuse_light ==
            IF light_dot_normal < 0 THEN BLACK
            ELSE CMul(CMul(effective_color, material.diffuse), light_dot_normal)
        specular_light ==
            IF light_dot_normal < 0 \/ reflect_dot_eye <= 0 THEN BLACK
            ELSE CMul(CMul(light.intensity, material.specular),
                      powi(reflect_dot_eye, material.shininess))
    IN  IF in_shadow THEN ambient_light
        ELSE CAdd(CAdd(ambient_light, diffuse_light), specular_light)

\* ------------------------------------------------------------------ World
World(objects, lights) == [objects |-> objects, lights |-> lights]

\* World::intersect: the shapes' intersections, in the order of objects
RECURSIVE FlatMap(_, _, _)
FlatMap(objects, ray, i) ==
    IF i > Len(objects) THEN <<>>
    ELSE intersect(objects[i], ray) \o FlatMap(objects, ray, i + 1)

\* a World::intersect that keeps the intersections ahead of the ray alone
world_intersectAhead(w, ray) ==
    SelectSeq(FlatMap(w.objects, ray, 1), LAMBDA e : e.t >= 0)

world_intersect(w, ray) == FlatMap(w.objects, ray, 1)

\* the shadow ray of is_shadowed
ShadowRay(light, point) ==
    Ray(point, normalize(TSub(light.position, point)))

\* an is_shadowed that takes any hit for an occluder, also one beyond the light
is_shadowedByAnyHit(w, light, point) ==
    hit(world_intersect(w, ShadowRay(light, point))) # 0

\* World::is_shadowed, when ray(point, direction) passes the assertion
is_shadowed(w, light, point) ==
    LET distance == magnitude(TSub(light.position, point))
        is == world_intersect(w, ShadowRay(light, point))
        h == hit(is)
    IN  h # 0 /\ is[h].t < distance

ShadowPanics(light, point) ==
    LET r == ShadowRay(light, point) IN ~RayOk(r.origin, r.direction)

\* the surface term of shade_hit: the lights' contributions, in order
RECURSIVE Surface(_, _, _)
Surface(w, comps, n) ==
    IF n = 0 THEN BLACK
    ELSE CAdd(Surface(w, comps, n - 1),
              lighting(comps.object.material, comps.object, w.lights[n], comps.point,
                       comps.eyev, comps.normalv,
                       is_shadowed(w, w.lights[n], comps.over_point)))

SurfacePanics(w, comps) ==
    \E n \in 1..Len(w.lights) : ShadowPanics(w.lights[n], comps.over_point)

\* a shade_hit that weighs the surface colour by the reflectance as well
BlendSurfaceToo(comps, surface, reflected, refracted) ==
    LET material == comps.object.material
        reflectance == schlick(comps)
    IN  IF material.reflective > 0 /\ material.transparency > 0
        THEN CAdd(CAdd(CMul(surface, reflectance), CMul(reflected, reflectance)),
                  CMul(refracted, One - reflectance))
        ELSE CAdd(CAdd(surface, reflected), refracted)

\* the last lines of shade_hit
Blend(comps, surface, reflected, refracted) ==
    LET material == comps.object.material
        reflectance == schlick(comps)
    IN  IF material.reflective > 0 /\ material.transparency > 0
        THEN CAdd(CAdd(surface, CMul(reflected, reflectance)),
                  CMul(refracted, One - reflectance))
        ELSE CAdd(CAdd(surface, reflected), refracted)

\* refracted_color: sin(theta_t)^2 and the refracted ray
Sin2TOfNoAngle(comps) == 0

Sin2T(comps) ==
    LET n_ratio == FDiv(comps.n1, comps.n2)
        cos_i == dot(comps.eyev, comps.normalv)
    IN  FMul(FMul(n_ratio, n_ratio), One - FMul(cos_i, cos_i))

RefractRay(comps) ==
    LET n_ratio == FDiv(comps.n1, comps.n2)
        cos_i == dot(comps.eyev, comps.normalv)
        cos_t == FSqrt(One - Sin2T(comps))
    IN  Ray(comps.under_point,
            TSub(TMul(comps.normalv, FMul(n_ratio, cos_i) - cos_t),
                 TMul(comps.eyev, n_ratio)))

ReflectRay(comps) == Ray(comps.over_point, comps.reflectv)

\* a reflected_color that returns early for a spent budget alone
ReflectedIsBlackSpentOnly(comps, remaining) ==
    remaining = 0

\* a reflected_color that lacks the test of the budget
ReflectedIsBlackNoBudget(comps, remaining) ==
    comps.object.material.reflective = 0

\* the early return of reflected_color
ReflectedIsBlack(comps, remaining) ==
    comps.object.material.reflective = 0 \/ remaining = 0

\* a refracted_color that lacks the test of the budget
RefractedIsBlackNoBudget(comps, remaining) ==
    comps.object.material.transparency = 0

\* the early return of refracted_color
RefractedIsBlack(comps, remaining) ==
    comps.object.material.transparency = 0 \/ remaining = 0

\* a budget that is handed on as it is
DecKeep(remaining) == remaining

\* remaining - 1 on a u8
Dec(remaining) == (remaining + U8 - 1) % U8

\* ------------------------------------------------------------------ state
VARIABLES
    world,      \* the World under test: objects and lights, read-only
    stack,      \* the call stack of the running World operation
    returned,   \* the call that returned last: its arguments and its value
    shadowed,   \* the bool returned by is_shadowed
    call,       \* the operation called on the world, with its arguments
    calls,      \* calls made by it, per function
    prep,       \* the arguments color_at handed to prepare_computations last
    panicked,   \* an assertion failed in the operation
    xs,         \* a list of intersections handed to hit and prepare_computations
    out,        \* what the function called on xs returned
    camera,     \* the Camera that renders the world, read-only
    rpc,        \* where Camera::render is: "idle", "map", "write", "done"
    pending,    \* the pixels (x, y) whose worker has not finished
    pixels,     \* the Vec the workers' results (x, y, color) are collected in
    canvas,     \* the Canvas of render
    writes,     \* the write_pixel calls made so far, in order
    args,       \* a function of the library and the arguments it is called with
    res         \* what that call came to: a value, or a failed assertion

\* the state of the World operations
worldVars == <<world, stack, returned, shadowed, call, calls, prep, panicked>>

\* the state of the calls on a list of intersections
listVars == <<xs, out>>

\* the state of Camera::render
renderVars == <<camera, rpc, pending, pixels, canvas, writes>>

\* the state of a call of one function of the library
fnVars == <<args, res>>

\* what the World operations leave alone
otherThanWorld == <<listVars, renderVars, fnVars>>

vars == <<worldVars, listVars, renderVars, fnVars>>

NoOut == [fn |-> "none", k |-> 0, h |-> 0, n1 |-> One, n2 |-> One]

ListIdle == xs = <<>> /\ out = NoOut

NoRes == [done |-> FALSE, panicked |-> FALSE, value |-> <<>>]

FnIdle == args = <<>> /\ res = NoRes

RenderIdle ==
    /\ camera = <<>>
    /\ rpc = "idle"
    /\ pending = {}
    /\ pixels = <<>>
    /\ canvas = <<>>
    /\ writes = <<>>

Frame(fn, pc, ray, comps, remaining) ==
    [fn |-> fn, pc |-> pc, ray |-> ray, comps |-> comps, remaining |-> remaining,
     surface |-> BLACK, reflected |-> BLACK]

Top == stack[Len(stack)]

Pop == SubSeq(stack, 1, Len(stack) - 1)

\* the caller's frame moves to pc, the callee's frame goes on top
PushFrom(pc, frame) == Append([stack EXCEPT ![Len(stack)].pc = pc], frame)

Running(fn, pc) == stack # <<>> /\ Top.fn = fn /\ Top.pc = pc

NoCalls == [color_at |-> 0, prepare_computations |-> 0, shade_hit |-> 0, rays |-> 0]

NoPrep == [ray |-> <<>>, xs |-> <<>>, h |-> 0, n1 |-> One, n2 |-> One]

NoCall == [fn |-> "none", ray |-> <<>>, remaining |-> 0, light |-> <<>>, point |-> <<>>]

NoReturn ==
    [fn |-> "none", ray |-> <<>>, comps |-> <<>>, remaining |-> 0, value |-> BLACK,
     nested |-> FALSE, surface |-> BLACK, reflected |-> BLACK, refracted |-> BLACK]

\* the running call returns value; nested tells that it made its inner call
Return(value, nested) ==
    /\ stack' = Pop
    /\ returned' = [fn |-> Top.fn, ray |-> Top.ray, comps |-> Top.comps,
                    remaining |-> Top.remaining, value |-> value, nested |-> nested,
                    surface |-> Top.surface, reflected |-> Top.reflected,
                    refracted |-> IF Top.fn = "shade_hit" THEN returned.value ELSE BLACK]

\* an assertion fails: the operation unwinds
Panic ==
    /\ panicked' = TRUE
    /\ stack' = <<>>
    /\ UNCHANGED <<world, returned, shadowed, call, calls, prep>>

\* ----------------------------------------------------------------- scenes
\* Material fields: color, ambient, diffuse, specular, shininess, reflective,
\* transparency, refractive_index
Matte == Material(color(51, One, 38), 6, 45, 13, 2, 0, 0, One)

Plain == Material(WHITE, 6, 58, 58, 2, 0, 0, One)

Mirror == Material(WHITE, 6, 58, 58, 2, One, 0, One)

Glass == Material(WHITE, 6, 58, 58, 2, 0, One, 96)

Dense == Material(WHITE, 6, 58, 58, 2, 0, One, 2 * One)

GlassMirror == Material(color(One, 0, 0), 32, 58, 58, 2, 32, 32, 96)

\* kind, transform and material of the shapes a scene is built from
Protos ==
    { <<"sphere", scaling(2 * One), Glass>>,
      <<"sphere", identity, Dense>>,
      <<"sphere", identity, Matte>>,
      <<"sphere", scaling(32), Plain>>,
      <<"sphere", scaling(32), GlassMirror>>,
      <<"plane", translation(0, -3 * One, 0), Mirror>>,
      <<"plane", translation(0, 3 * One, 0), Mirror>> }

ObjectLists ==
    {<<>>} \cup { <<Shape(1, a[1], a[2], a[3])>> : a \in Protos }
           \cup { <<Shape(1, a[1], a[2], a[3]), Shape(2, b[1], b[2], b[3])>> :
                     a \in Protos, b \in Protos }

LightFar == PointLight(pt(0, -10 * One, 0), WHITE)

LightMid == PointLight(pt(0, 0, 0), color(32, 32, 32))

LightLists == { <<>>, <<LightMid>>, <<LightFar, LightMid>> }

Worlds == { World(o, l) : o \in ObjectLists, l \in LightLists }

\* primary rays: origin on the y axis, direction +y or -y
Rays ==
    { Ray(pt(0, y, 0), v(0, d, 0)) : y \in {-5 * One, 0, 96}, d \in {One, -One} }

\* arguments of is_shadowed
Points == { pt(0, y, 0) : y \in {-10 * One, -5 * One, -96, 0, 96, 5 * One} }

Lights == { LightFar, LightMid }

\* ------------------------------------------------------- World operations
Init ==
    /\ world \in Worlds
    /\ stack = <<>>
    /\ returned = NoReturn
    /\ shadowed = FALSE
    /\ call = NoCall
    /\ calls = NoCalls
    /\ prep = NoPrep
    /\ panicked = FALSE
    /\ ListIdle
    /\ RenderIdle
    /\ FnIdle

\* a test calls world.color_at(ray, d)
call_color_at ==
    /\ call = NoCall
    /\ \E ray \in Rays, d \in 0..MaxDepth :
          /\ stack' = <<Frame("color_at", "call", ray, <<>>, d)>>
          /\ call' = [NoCall EXCEPT !.fn = "color_at", !.ray = ray, !.remaining = d]
    /\ calls' = [NoCalls EXCEPT !.color_at = 1]
    /\ UNCHANGED <<world, returned, shadowed, prep, panicked>>
    /\ UNCHANGED otherThanWorld

\* a test calls world.is_shadowed(light, point)
call_is_shadowed ==
    /\ call = NoCall
    /\ \E light \in Lights, point \in Points :
          /\ call' = [NoCall EXCEPT !.fn = "is_shadowed", !.light = light, !.point = point]
          /\ panicked' = ShadowPanics(light, point)
          /\ shadowed' = IF ShadowPanics(light, point) THEN FALSE
                         ELSE is_shadowed(world, light, point)
    /\ UNCHANGED <<world, stack, returned, calls, prep>>
    /\ UNCHANGED otherThanWorld

\* World::color_at up to its call of shade_hit
color_at ==
    /\ Running("color_at", "call")
    /\ LET is == world_intersect(world, Top.ray)
           h == hit(is)
       IN  IF h = 0
           THEN /\ Return(BLACK, FALSE)
                /\ UNCHANGED <<calls, prep>>
           ELSE LET comps == prepare_computations(is[h], Top.ray, is)
                IN  /\ stack' = PushFrom("wait",
                                     Frame("shade_hit", "call", <<>>, comps, Top.remaining))
                    /\ prep' = [ray |-> Top.ray, xs |-> is, h |-> h,
                                n1 |-> comps.n1, n2 |-> comps.n2]
                    /\ calls' = [calls EXCEPT !.prepare_computations = @ + 1,
                                              !.shade_hit = @ + 1]
                    /\ UNCHANGED returned
    /\ UNCHANGED <<world, shadowed, call, panicked>>
    /\ UNCHANGED otherThanWorld

\* World::color_at returns what shade_hit returned
color_at_return ==
    /\ Running("color_at", "wait")
    /\ Return(returned.value, TRUE)
    /\ UNCHANGED <<world, shadowed, call, calls, prep, panicked>>
    /\ UNCHANGED otherThanWorld

\* World::shade_hit up to its call of reflected_color
shade_hit ==
    /\ Running("shade_hit", "call")
    /\ IF SurfacePanics(world, Top.comps) THEN Panic
       ELSE /\ stack' = Append(
                   [stack EXCEPT ![Len(stack)].pc = "reflected",
                                 ![Len(stack)].surface =
                                     Surface(world, Top.comps, Len(world.lights))],
                   Frame("reflected_color", "call", <<>>, Top.comps, Top.remaining))
            /\ UNCHANGED <<world, returned, shadowed, call, calls, prep, panicked>>
    /\ UNCHANGED otherThanWorld

\* World::shade_hit from the return of reflected_color to its call of refracted_color
shade_hit_reflected ==
    /\ Running("shade_hit", "reflected")
    /\ stack' = Append(
           [stack EXCEPT ![Len(stack)].pc = "refracted",
                         ![Len(stack)].reflected = returned.value],
           Frame("refracted_color", "call", <<>>, Top.comps, Top.remaining))
    /\ UNCHANGED <<world, returned, shadowed, call, calls, prep, panicked>>
    /\ UNCHANGED otherThanWorld

\* World::shade_hit from the return of refracted_color to its own
shade_hit_return ==
    /\ Running("shade_hit", "refracted")
    /\ Return(Blend(Top.comps, Top.surface, Top.reflected, returned.value), TRUE)
    /\ UNCHANGED <<world, shadowed, call, calls, prep, panicked>>
    /\ UNCHANGED otherThanWorld

\* World::reflected_color up to its call of color_at
reflected_color ==
    /\ Running("reflected_color", "call")
    /\ IF ReflectedIsBlack(Top.comps, Top.remaining)
       THEN /\ Return(BLACK, FALSE)
            /\ UNCHANGED <<world, shadowed, call, calls, prep, panicked>>
       ELSE LET reflect_ray == ReflectRay(Top.comps)
            IN  IF ~RayOk(reflect_ray.origin, reflect_ray.direction) THEN Panic
                ELSE /\ stack' = PushFrom("wait",
                            Frame("color_at", "call", reflect_ray, <<>>, Dec(Top.remaining)))
                     /\ calls' = [calls EXCEPT !.rays = @ + 1, !.color_at = @ + 1]
                     /\ UNCHANGED <<world, returned, shadowed, call, prep, panicked>>
    /\ UNCHANGED otherThanWorld

\* World::reflected_color scales the colour color_at returned
reflected_color_return ==
    /\ Running("reflected_color", "wait")
    /\ Return(CMul(returned.value, Top.comps.object.material.reflective), TRUE)
    /\ UNCHANGED <<world, shadowed, call, calls, prep, panicked>>
    /\ UNCHANGED otherThanWorld

\* World::refracted_color up to its call of color_at
refracted_color ==
    /\ Running("refracted_color", "call")
    /\ IF RefractedIsBlack(Top.comps, Top.remaining)
       THEN /\ Return(BLACK, FALSE)
            /\ UNCHANGED <<world, shadowed, call, calls, prep, panicked>>
       ELSE IF Sin2T(Top.comps) > One
       THEN /\ Return(color(0, 0, 0), FALSE)
            /\ UNCHANGED <<world, shadowed, call, calls, prep, panicked>>
       ELSE LET refract_ray == RefractRay(Top.comps)
            IN  IF ~RayOk(refract_ray.origin, refract_ray.direction) THEN Panic
                ELSE /\ stack' = PushFrom("wait",
                            Frame("color_at", "call", refract_ray, <<>>, Dec(Top.remaining)))
                     /\ calls' = [calls EXCEPT !.rays = @ + 1, !.color_at = @ + 1]
                     /\ UNCHANGED <<world, returned, shadowed, call, prep, panicked>>
    /\ UNCHANGED otherThanWorld

\* World::refracted_color scales the colour color_at returned
refracted_color_return ==
    /\ Running("refracted_color", "wait")
    /\ Return(CMul(returned.value, Top.comps.object.material.transparency), TRUE)
    /\ UNCHANGED <<world, shadowed, call, calls, prep, panicked>>
    /\ UNCHANGED otherThanWorld

\* the steps of a running operation
Step ==
    \/ color_at
    \/ color_at_return
    \/ shade_hit
    \/ shade_hit_reflected
    \/ shade_hit_return
    \/ reflected_color
    \/ reflected_color_return
    \/ refracted_color
    \/ refracted_color_return

Next ==
    \/ call_color_at
    \/ call_is_shadowed
    \/ Step

Spec == Init /\ [][Next]_vars

\* ------------------------------------------------- lists of intersections
\* the shapes of finding_n1_and_n2_at_various_intersections, on the y axis:
\* a and b, and a second shape with the kind, transform and material of a
ListShapes ==
    { Shape(1, "sphere", scaling(2 * One), Glass),
      Shape(2, "sphere", identity, Dense),
      Shape(3, "sphere", scaling(2 * One), Glass) }

Ts == { -One, 0, One, 2 * One }

\* Intersection::new(t, shape), in any order
AnyLists ==
    UNION { [1..n -> { Intersection(t, o) : t \in Ts, o \in ListShapes }] :
                n \in 0..MaxLen }

\* shape.intersection(t) with t rising along the list
TraversalLists ==
    UNION { { [k \in 1..n |-> Intersection(k * One, os[k])] : os \in [1..n -> ListShapes] } :
                n \in 0..MaxTraversal }

XsLists == AnyLists \cup TraversalLists

\* the ray handed to prepare_computations with a list
ProbeRay == Ray(pt(0, -8 * One, 0), v(0, One, 0))

WorldIdle ==
    /\ world = World(<<>>, <<>>)
    /\ stack = <<>>
    /\ returned = NoReturn
    /\ shadowed = FALSE
    /\ call = NoCall
    /\ calls = NoCalls
    /\ prep = NoPrep
    /\ panicked = FALSE

InitXs ==
    /\ xs \in XsLists
    /\ out = NoOut
    /\ WorldIdle
    /\ RenderIdle
    /\ FnIdle

\* xs.hit()
call_hit ==
    /\ out = NoOut
    /\ out' = [NoOut EXCEPT !.fn = "hit", !.h = hit(xs)]
    /\ UNCHANGED <<xs, worldVars, renderVars, fnVars>>

\* xs[k].prepare_computations(r, xs)
call_prepare_computations ==
    /\ out = NoOut
    /\ \E k \in 1..Len(xs) :
          LET comps == prepare_computations(xs[k], ProbeRay, xs)
          IN  out' = [fn |-> "prepare_computations", k |-> k, h |-> 0,
                      n1 |-> comps.n1, n2 |-> comps.n2]
    /\ UNCHANGED <<xs, worldVars, renderVars, fnVars>>

NextXs ==
    \/ call_hit
    \/ call_prepare_computations

SpecXs == InitXs /\ [][NextXs]_vars

\* ------------------------------------------------------------- properties
ColorAtFrames == { i \in 1..Len(stack) : stack[i].fn = "color_at" }

Below(i) == { j \in ColorAtFrames : j < i }

\* the world of two facing, fully reflective planes
FacingMirrors ==
    /\ Len(world.objects) = 2
    /\ \A i \in 1..2 : /\ world.objects[i].kind = "plane"
                        /\ world.objects[i].material.reflective = One
    /\ world.objects[1].transform # world.objects[2].transform

\* every color_at call on the stack holds the budget of the primary call less
\* the number of color_at calls it is nested in, and there are at most
\* budget + 1 of them
C1_Depth ==
    /\ Cardinality(ColorAtFrames) <= call.remaining + 1
    /\ \A i \in ColorAtFrames :
          stack[i].remaining = call.remaining - Cardinality(Below(i))
    /\ \A i \in 1..Len(stack) :
          stack[i].fn # "color_at" =>
              \E j \in ColorAtFrames :
                  /\ j < i
                  /\ stack[i].remaining = stack[j].remaining
                  /\ \A k \in ColorAtFrames : k < i => k <= j

\* the longest run of steps left to a call of budget d, per function:
\* color_at, shade_hit and reflected_color or refracted_color
RECURSIVE CostColorAt(_)
CostColorAt(d) == IF d = 0 THEN 7 ELSE 9 + 2 * CostColorAt(d - 1)

CostSecondary(d) == IF d = 0 THEN 1 ELSE 2 + CostColorAt(d - 1)

CostShadeHit(d) == 3 + 2 * CostSecondary(d)

\* the steps a frame has left, the calls it has yet to make included
Cost(f) ==
    IF f.fn = "color_at" THEN (IF f.pc = "call" THEN CostColorAt(f.remaining) ELSE 1)
    ELSE IF f.fn = "shade_hit"
    THEN (IF f.pc = "call" THEN CostShadeHit(f.remaining)
          ELSE IF f.pc = "reflected" THEN 2 + CostSecondary(f.remaining)
          ELSE 1)
    ELSE (IF f.pc = "call" THEN CostSecondary(f.remaining) ELSE 1)

RECURSIVE Variant(_)
Variant(st) == IF st = <<>> THEN 0 ELSE Cost(st[Len(st)]) + Variant(SubSeq(st, 1, Len(st) - 1))

\* C1: color_at terminates for every world and budget: each nested color_at
\* call gets its caller's budget less one, the nesting never exceeds d + 1,
\* and every step of a running call lowers a natural-valued variant, so that
\* no call runs for ever.
C1_Terminates ==
    /\ []C1_Depth
    /\ [][stack # <<>> => Variant(stack') < Variant(stack)]_vars

C1_Witness ==
    /\ FacingMirrors
    /\ call.remaining = MaxDepth
    /\ Cardinality(ColorAtFrames) = MaxDepth + 1

\* C2: reflected_color and refracted_color called with budget 0 return black
\* whatever the material, and call color_at for no secondary ray.
C2_BlackAtDepthZero ==
    (returned.fn \in {"reflected_color", "refracted_color"} /\ returned.remaining = 0)
        => (returned.value = BLACK /\ ~returned.nested)

C2_Witness ==
    /\ returned.fn = "refracted_color"
    /\ returned.remaining = 0
    /\ returned.comps.object.material.transparency > 0
    /\ returned.comps.object.material.reflective > 0
    /\ returned.comps.object.material.refractive_index > One

\* the orders a list of n intersections can be given in
Orders(n) == { p \in [1..n -> 1..n] : \A i, j \in 1..n : i # j => p[i] # p[j] }

Reordered(p) == [i \in 1..Len(xs) |-> xs[p[i]]]

\* C3: hit() returns an intersection whose t is the smallest of those with
\* t >= 0, t = 0 included, in whatever order the list is given, and returns
\* none exactly when the list is empty or every t in it is negative.
C3_HitIsSmallestNonNegative ==
    out.fn = "hit" =>
        /\ out.h = 0 <=> \A i \in 1..Len(xs) : xs[i].t < 0
        /\ out.h # 0 =>
              /\ out.h \in 1..Len(xs)
              /\ xs[out.h].t >= 0
              /\ \A i \in 1..Len(xs) : xs[i].t >= 0 => xs[out.h].t <= xs[i].t
        /\ \A p \in Orders(Len(xs)) :
              LET ys == Reordered(p)
              IN  /\ hit(ys) = 0 <=> out.h = 0
                  /\ hit(ys) # 0 => ys[hit(ys)].t = xs[out.h].t

C3_Witness ==
    /\ out.fn = "hit"
    /\ Len(xs) = MaxLen
    /\ out.h = MaxLen
    /\ xs[out.h].t = 0
    /\ \E i, j \in 1..Len(xs) : xs[i].t < 0 /\ xs[j].t > 0

\* the shapes a ray is inside of after the first k intersections of the list,
\* a shape being the object it is, the last entered last
RECURSIVE Occupied(_, _)
Occupied(is, k) ==
    IF k = 0 THEN <<>>
    ELSE LET before == Occupied(is, k - 1)
             o == is[k].object
         IN  IF \E i \in 1..Len(before) : before[i].id = o.id
             THEN SelectSeq(before, LAMBDA s : s.id # o.id)
             ELSE Append(before, o)

IndexOf(containers) ==
    IF containers = <<>> THEN One
    ELSE containers[Len(containers)].material.refractive_index

\* t rises along the list, no intersection is in it twice, and every shape is
\* entered and later left
Traversal(is) ==
    /\ \A i, j \in 1..Len(is) : i < j => is[i].t <= is[j].t /\ is[i] # is[j]
    /\ \A i \in 1..Len(is) :
          Cardinality({ j \in 1..Len(is) : is[j].object.id = is[i].object.id }) % 2 = 0

\* C4: on a t-ascending list of pairwise distinct intersections in which
\* every shape is entered and later left, prepare_computations for the k-th
\* intersection yields n1 = the refractive index of the shape entered last and
\* not yet left over the intersections before it (1.0 if none) and n2 = the
\* same with the k-th intersection included.
C4_N1N2 ==
    (out.fn = "prepare_computations" /\ Traversal(xs)) =>
        /\ out.n1 = IndexOf(Occupied(xs, out.k - 1))
        /\ out.n2 = IndexOf(Occupied(xs, out.k))

Count(e, is) == Cardinality({ i \in 1..Len(is) : is[i] = e })

\* how often e is among the intersections of the ray with the first n objects
RECURSIVE CountInWorld(_, _, _)
CountInWorld(e, ray, n) ==
    IF n = 0 THEN 0
    ELSE Count(e, intersect(world.objects[n], ray)) + CountInWorld(e, ray, n - 1)

Ascending(is) == \A i, j \in 1..Len(is) : i < j => is[i].t <= is[j].t

\* C5: the list color_at hands to prepare_computations holds every
\* intersection of the ray with every shape of the world, each as often as
\* the shapes yield it, and is ascending-sorted by t.
C5_FullSortedSet ==
    prep # NoPrep =>
        /\ \A o \in 1..Len(world.objects) :
              \A i \in 1..Len(intersect(world.objects[o], prep.ray)) :
                  LET e == intersect(world.objects[o], prep.ray)[i]
                  IN  Count(e, prep.xs) = CountInWorld(e, prep.ray, Len(world.objects))
        /\ \A i \in 1..Len(prep.xs) :
              CountInWorld(prep.xs[i], prep.ray, Len(world.objects)) > 0
        /\ Ascending(prep.xs)

\* e put into a list sorted by t, behind the elements of that list with the same t
RECURSIVE Insert(_, _)
Insert(e, is) ==
    IF is = <<>> THEN <<e>>
    ELSE IF Less(e, is[1]) THEN <<e>> \o is
         ELSE <<is[1]>> \o Insert(e, Tail(is))

RECURSIVE SortByT(_)
SortByT(is) ==
    IF is = <<>> THEN <<>>
    ELSE Insert(is[Len(is)], SortByT(SubSeq(is, 1, Len(is) - 1)))

\* C6: the n1 and n2 color_at uses at the visible hit are the ones
\* prepare_computations gives for that hit on the t-sorted set of the ray's
\* intersections, in whatever order the shapes are in World.objects.
C6_N1N2OfSortedSet ==
    prep # NoPrep =>
        LET sorted == SortByT(prep.xs)
            comps == prepare_computations(sorted[hit(sorted)], prep.ray, sorted)
        IN  /\ sorted[hit(sorted)].t = prep.xs[prep.h].t
            /\ prep.n1 = comps.n1
            /\ prep.n2 = comps.n2

\* the t of the intersections of every shape of the world with the ray
TsAlong(ray) ==
    UNION { { intersect(world.objects[o], ray)[i].t :
                  i \in 1..Len(intersect(world.objects[o], ray)) } :
            o \in 1..Len(world.objects) }

\* C7: is_shadowed(light, point) is true if and only if some shape of the
\* world meets the ray from point toward light at a t with 0 <= t < distance
\* from point to light, which is to say that the hit of that ray has
\* t < distance; shapes behind the point or beyond the light do not count.
C7_ShadowedIffHitBeforeLight ==
    (call.fn = "is_shadowed" /\ ~panicked) =>
        LET distance == magnitude(TSub(call.light.position, call.point))
            direction == normalize(TSub(call.light.position, call.point))
        IN  shadowed <=>
                \E t \in TsAlong(Ray(call.point, direction)) : 0 <= t /\ t < distance

C7_Witness ==
    /\ call.fn = "is_shadowed"
    /\ ~panicked
    /\ shadowed
    /\ LET distance == magnitude(TSub(call.light.position, call.point))
           ts == TsAlong(ShadowRay(call.light, call.point))
       IN  /\ \E t \in ts : t < 0
           /\ \E t \in ts : t > distance

\* the ray meets no shape of the world at a t >= 0
Misses(ray) == \A t \in TsAlong(ray) : t < 0

\* C8: a color_at call whose ray has no intersection with t >= 0 returns
\* black whatever its budget, calls neither prepare_computations nor
\* shade_hit, and fails no assertion.
C8_MissIsBlack ==
    [][(Running("color_at", "call") /\ Misses(Top.ray)) =>
          /\ stack' = Pop
          /\ returned'.fn = "color_at"
          /\ returned'.value = BLACK
          /\ ~returned'.nested
          /\ calls' = calls
          /\ prep' = prep
          /\ ~panicked']_vars

C8_Witness ==
    /\ returned.fn = "color_at"
    /\ ~returned.nested
    /\ returned.remaining > 0
    /\ Misses(returned.ray)
    /\ TsAlong(returned.ray) # {}

\* the surface colour of a hit: the Phong lighting of every light of the
\* world, each with its own shadow test at over_point
SurfaceOf(comps) ==
    CSum([n \in 1..Len(world.lights) |->
            lighting(comps.object.material, comps.object, world.lights[n], comps.point,
                     comps.eyev, comps.normalv,
                     is_shadowed(world, world.lights[n], comps.over_point))])

\* S + R + T, or S + r*R + (1-r)*T for a reflective and transparent material
ShadeOf(comps, S, R, T) ==
    IF comps.object.material.reflective > 0 /\ comps.object.material.transparency > 0
    THEN CAdd(CAdd(S, CMul(R, schlick(comps))), CMul(T, One - schlick(comps)))
    ELSE CAdd(CAdd(S, R), T)

\* C9: shade_hit(comps, d) takes R from reflected_color(comps, d) and T from
\* refracted_color(comps, d) and returns S + R + T, or S + r*R + (1-r)*T when
\* the material is reflective and transparent, with S the sum of the lighting
\* of every light and r = comps.schlick(); S is never scaled by r.
C9_ShadeHitSum ==
    [][/\ Running("shade_hit", "reflected") =>
              /\ returned.fn = "reflected_color"
              /\ returned.comps = Top.comps
              /\ returned.remaining = Top.remaining
       /\ Running("shade_hit", "refracted") =>
              /\ returned.fn = "refracted_color"
              /\ returned.comps = Top.comps
              /\ returned.remaining = Top.remaining
              /\ returned'.fn = "shade_hit"
              /\ returned'.value =
                     ShadeOf(Top.comps, SurfaceOf(Top.comps), Top.reflected, returned.value)]_vars

C9_Witness ==
    /\ returned.fn = "shade_hit"
    /\ returned.comps.object.material.reflective > 0
    /\ returned.comps.object.material.transparency > 0
    /\ Len(world.lights) = 2
    /\ returned.surface # BLACK
    /\ returned.reflected # BLACK
    /\ returned.refracted # BLACK
    /\ schlick(returned.comps) \notin {0, One}

\* ----------------------------------------------------------------- Camera
\* World::color_at and the functions it calls, as the closure of a render
\* worker runs them from its call to its return
RECURSIVE ColorAt(_, _, _)
RECURSIVE ShadeHit(_, _, _)
RECURSIVE ReflectedColor(_, _, _)
RECURSIVE RefractedColor(_, _, _)
ColorAt(w, ray, remaining) ==
    LET is == world_intersect(w, ray)
        h == hit(is)
    IN  IF h = 0 THEN BLACK
        ELSE ShadeHit(w, prepare_computations(is[h], ray, is), remaining)

ShadeHit(w, comps, remaining) ==
    Blend(comps, Surface(w, comps, Len(w.lights)),
          ReflectedColor(w, comps, remaining), RefractedColor(w, comps, remaining))

ReflectedColor(w, comps, remaining) ==
    IF ReflectedIsBlack(comps, remaining) THEN BLACK
    ELSE CMul(ColorAt(w, ReflectRay(comps), Dec(remaining)),
              comps.object.material.reflective)

RefractedColor(w, comps, remaining) ==
    IF RefractedIsBlack(comps, remaining) THEN BLACK
    ELSE IF Sin2T(comps) > One THEN color(0, 0, 0)
    ELSE CMul(ColorAt(w, RefractRay(comps), Dec(remaining)),
              comps.object.material.transparency)

\* an assertion of Ray::new fails somewhere in color_at
RECURSIVE ColorAtPanics(_, _, _)
RECURSIVE ReflectedColorPanics(_, _, _)
RECURSIVE RefractedColorPanics(_, _, _)
ColorAtPanics(w, ray, remaining) ==
    LET is == world_intersect(w, ray)
        h == hit(is)
    IN  /\ h # 0
        /\ LET comps == prepare_computations(is[h], ray, is)
           IN  \/ SurfacePanics(w, comps)
               \/ ReflectedColorPanics(w, comps, remaining)
               \/ RefractedColorPanics(w, comps, remaining)

ReflectedColorPanics(w, comps, remaining) ==
    /\ ~ReflectedIsBlack(comps, remaining)
    /\ \/ ~RayOk(ReflectRay(comps).origin, ReflectRay(comps).direction)
       \/ ColorAtPanics(w, ReflectRay(comps), Dec(remaining))

RefractedColorPanics(w, comps, remaining) ==
    /\ ~RefractedIsBlack(comps, remaining)
    /\ ~(Sin2T(comps) > One)
    /\ \/ ~RayOk(RefractRay(comps).origin, RefractRay(comps).direction)
       \/ ColorAtPanics(w, RefractRay(comps), Dec(remaining))

\* tan(field_of_view / 2) of a camera with field_of_view = PI / 2
HalfView == One

\* Camera::new(hsize, vsize, PI / 2).transform(transform)
Camera(hsize, vsize, transform) ==
    LET aspect == FDiv(hsize * One, vsize * One)
        half_width == IF aspect >= One THEN HalfView ELSE FMul(HalfView, aspect)
        half_height == IF aspect >= One THEN FDiv(HalfView, aspect) ELSE HalfView
    IN  [hsize |-> hsize, vsize |-> vsize, half_width |-> half_width,
         half_height |-> half_height,
         pixel_size |-> FDiv(half_width * 2, hsize * One),
         transform |-> transform]

\* Camera::ray_for_pixel, when Ray::new passes its assertion
ray_for_pixel(c, x, y) ==
    LET offset_x == FMul(One \div 2 + x * One, c.pixel_size)
        offset_y == FMul(One \div 2 + y * One, c.pixel_size)
        world_x == c.half_width - offset_x
        world_y == c.half_height - offset_y
        wall_point == MMul(inverse(c.transform), pt(world_x, world_y, -One))
        origin == MMul(inverse(c.transform), pt(0, 0, 0))
        direction == normalize(TSub(wall_point, origin))
    IN  Ray(origin, direction)

\* Canvas::new(width, height)
Canvas(width, height) ==
    [width |-> width, height |-> height, pixels |-> [i \in 1..(width * height) |-> BLACK]]

\* a canvas that keeps its pixels column after column
PixelIndexByColumn(cv, x, y) == x * cv.height + y

\* the index y * self.width + x of pixel_at and write_pixel
PixelIndex(cv, x, y) == y * cv.width + x

\* Canvas::write_pixel, when the index is within the Vec
write_pixel(cv, x, y, c) == [cv EXCEPT !.pixels[PixelIndex(cv, x, y) + 1] = c]

\* iproduct!(0..canvas.width, 0..canvas.height)
iproduct(cv) == (0..(cv.width - 1)) \X (0..(cv.height - 1))

\* the worlds a camera renders: two facing mirrors around a light, a sphere
\* around the camera, and the empty world
RenderWorlds ==
    { World(<<Shape(1, "plane", translation(0, -3 * One, 0), Mirror),
              Shape(2, "plane", translation(0, 3 * One, 0), Mirror)>>, <<LightMid>>),
      World(<<Shape(1, "sphere", scaling(2 * One), Matte)>>, <<LightFar, LightMid>>),
      World(<<>>, <<>>) }

Cameras ==
    { Camera(h, vs, t) : h \in 1..MaxPixels, vs \in 1..MaxPixels,
                         t \in {identity, translation(0, One, 0)} }

InitRender ==
    /\ world \in RenderWorlds
    /\ camera \in { c \in Cameras : c.hsize * c.vsize <= MaxPixels }
    /\ rpc = "idle"
    /\ pending = {}
    /\ pixels = <<>>
    /\ canvas = <<>>
    /\ writes = <<>>
    /\ stack = <<>>
    /\ returned = NoReturn
    /\ shadowed = FALSE
    /\ call = NoCall
    /\ calls = NoCalls
    /\ prep = NoPrep
    /\ panicked = FALSE
    /\ ListIdle
    /\ FnIdle

\* Camera::render up to the parallel iterator: the canvas and the pixels to map
render ==
    /\ rpc = "idle"
    /\ rpc' = "map"
    /\ canvas' = Canvas(camera.hsize, camera.vsize)
    /\ pending' = iproduct(Canvas(camera.hsize, camera.vsize))
    /\ UNCHANGED <<camera, pixels, writes, worldVars, listVars, fnVars>>

\* the closure of render for one pixel, run by a worker of the pool; its
\* result gets the place in the Vec that the order of completion gives it
render_worker ==
    /\ rpc = "map"
    /\ \E p \in pending :
          LET ray == ray_for_pixel(camera, p[1], p[2])
          IN  IF \/ ~RayOk(ray.origin, ray.direction)
                 \/ ColorAtPanics(world, ray, REFLECTION_DEPTH)
              THEN /\ panicked' = TRUE
                   /\ rpc' = "done"
                   /\ UNCHANGED <<pending, pixels>>
              ELSE /\ pixels' = Append(pixels,
                                       <<p[1], p[2], ColorAt(world, ray, REFLECTION_DEPTH)>>)
                   /\ pending' = pending \ {p}
                   /\ UNCHANGED <<panicked, rpc>>
    /\ UNCHANGED <<camera, canvas, writes, listVars, fnVars>>
    /\ UNCHANGED <<world, stack, returned, shadowed, call, calls, prep>>

\* collect() returns once every pixel is mapped
render_collect ==
    /\ rpc = "map"
    /\ pending = {}
    /\ rpc' = "write"
    /\ UNCHANGED <<camera, pending, pixels, canvas, writes, worldVars, listVars, fnVars>>

\* one turn of the loop over the collected pixels
render_write_pixel ==
    /\ rpc = "write"
    /\ pixels # <<>>
    /\ LET x == Head(pixels)[1]
           y == Head(pixels)[2]
       IN  IF PixelIndex(canvas, x, y) >= Len(canvas.pixels)
           THEN /\ panicked' = TRUE
                /\ rpc' = "done"
                /\ UNCHANGED <<pixels, canvas, writes>>
           ELSE /\ canvas' = write_pixel(canvas, x, y, Head(pixels)[3])
                /\ writes' = Append(writes, Head(pixels))
                /\ pixels' = Tail(pixels)
                /\ UNCHANGED <<panicked, rpc>>
    /\ UNCHANGED <<camera, pending, listVars, fnVars>>
    /\ UNCHANGED <<world, stack, returned, shadowed, call, calls, prep>>

\* render returns the canvas
render_return ==
    /\ rpc = "write"
    /\ pixels = <<>>
    /\ rpc' = "done"
    /\ UNCHANGED <<camera, pending, pixels, canvas, writes, worldVars, listVars, fnVars>>

NextRender ==
    \/ render
    \/ render_worker
    \/ render_collect
    \/ render_write_pixel
    \/ render_return

SpecRender == InitRender /\ [][NextRender]_vars

\* the colour of pixel (x, y): color_at of its ray with the budget REFLECTION_DEPTH
ColorOfPixel(x, y) == ColorAt(world, ray_for_pixel(camera, x, y), REFLECTION_DEPTH)

\* C10: render calls write_pixel for cells 0 <= x < hsize, 0 <= y < vsize
\* only, for no cell twice and, once it has returned, for every cell; the
\* colour written is color_at(ray_for_pixel(x, y), 5); and the canvas returned
\* is the one of these colours, whatever order the workers finish in.
C10_RenderWritesEachPixelOnce ==
    /\ \A i \in 1..Len(writes) :
          /\ writes[i][1] \in 0..(camera.hsize - 1)
          /\ writes[i][2] \in 0..(camera.vsize - 1)
          /\ writes[i][3] = ColorOfPixel(writes[i][1], writes[i][2])
          /\ \A j \in 1..Len(writes) :
                i # j => <<writes[i][1], writes[i][2]>> # <<writes[j][1], writes[j][2]>>
    /\ rpc = "done" =>
          /\ ~panicked
          /\ Len(writes) = camera.hsize * camera.vsize
          /\ canvas.width = camera.hsize
          /\ canvas.height = camera.vsize
          /\ canvas.pixels =
                 [i \in 1..(camera.hsize * camera.vsize) |->
                     ColorOfPixel((i - 1) % camera.hsize, (i - 1) \div camera.hsize)]

\* a 2 x 2 render whose workers finished last pixel first, whose pixels differ
\* and whose colours a budget of 4 would not give
C10_Witness ==
    /\ rpc = "done"
    /\ camera.hsize = 2
    /\ camera.vsize = 2
    /\ writes[1][1] = 1 /\ writes[1][2] = 1
    /\ writes[4][1] = 1 /\ writes[4][2] = 0
    /\ canvas.pixels[2] # canvas.pixels[3]
    /\ canvas.pixels[2] #
           ColorAt(world, ray_for_pixel(camera, 1, 0), REFLECTION_DEPTH - 1)

\* ------------------------------------------------- Matrix<D> by its rows
\* Matrix<D>(pub [[F; D]; D]): m[r][c] is self[r - 1][c - 1]

\* the rows of a matrix translation(tx, ty, tz) * scaling(s, s, s)
Rows(m) ==
    << <<m.s, 0, 0, m.tx>>, <<0, m.s, 0, m.ty>>, <<0, 0, m.s, m.tz>>, <<0, 0, 0, One>> >>

\* Mul<Tuple> for Matrix<4>
mul_tuple(m, t) ==
    LET Row(r) == FMul(m[r][1], t.x) + FMul(m[r][2], t.y) + FMul(m[r][3], t.z)
                      + FMul(m[r][4], t.w)
    IN  Tuple(Row(1), Row(2), Row(3), Row(4))

\* the value of a call that returned, and the call an assertion ended
Returned(value) == [done |-> TRUE, panicked |-> FALSE, value |-> value]

Panicked == [done |-> TRUE, panicked |-> TRUE, value |-> <<>>]

\* Ray::new
RayNew(origin, direction) ==
    IF RayOk(origin, direction) THEN Returned(Ray(origin, direction)) ELSE Panicked

\* Ray::transform with any Matrix<4>
RayTransformBy(ray, matrix) ==
    RayNew(mul_tuple(matrix, ray.origin), mul_tuple(matrix, ray.direction))

\* ---------------------------------------------- calls of single functions
\* rows of the matrices handed to the library
Rows4 ==
    { <<One, 0, 0, 0>>, <<0, One, 0, 0>>, <<0, 0, One, 0>>, <<0, 0, 0, One>>,
      <<0, 0, 0, 0>>, <<0, One, 0, One>> }

Matrices4 == { <<a, b, c, d>> : a \in Rows4, b \in Rows4, c \in Rows4, d \in Rows4 }

\* the w of the tuples handed to Ray::new
Ws == { 0, 1, One - 1, One, One + 1, NaN }

NewArgs ==
    { [fn |-> "Ray::new", origin |-> Tuple(0, y, 0, wo), direction |-> Tuple(0, One, 0, wd)] :
          y \in {0, One}, wo \in Ws, wd \in Ws }

TransformArgs ==
    { [fn |-> "Ray::transform", ray |-> Ray(pt(0, y, 0), v(0, One, 0)), matrix |-> m] :
          y \in {0, One}, m \in Matrices4 }

\* Ray::new(origin, direction)
call_new ==
    /\ args.fn = "Ray::new"
    /\ ~res.done
    /\ res' = RayNew(args.origin, args.direction)
    /\ UNCHANGED <<args, worldVars, listVars, renderVars>>

\* ray.transform(matrix)
call_transform ==
    /\ args.fn = "Ray::transform"
    /\ ~res.done
    /\ res' = RayTransformBy(args.ray, args.matrix)
    /\ UNCHANGED <<args, worldVars, listVars, renderVars>>

\* within EPSILON of each other
Near(a, b) == a # NaN /\ b # NaN /\ a - b < EPSILON /\ b - a < EPSILON

\* C11: Ray::new fails its assertion whenever the w of origin is not within
\* EPSILON of 1 or the w of direction is not within EPSILON of 0, and
\* Ray::transform fails it whenever the transformed tuples are such; so every
\* Ray that new or transform returns has a point for origin and a vector for
\* direction.
C11_RayIsPointAndVector ==
    (res.done /\ args.fn \in {"Ray::new", "Ray::transform"}) =>
        LET o == IF args.fn = "Ray::new" THEN args.origin
                 ELSE mul_tuple(args.matrix, args.ray.origin)
            d == IF args.fn = "Ray::new" THEN args.direction
                 ELSE mul_tuple(args.matrix, args.ray.direction)
        IN  /\ res.panicked <=> ~(Near(o.w, One) /\ Near(d.w, 0))
            /\ ~res.panicked =>
                  /\ res.value = Ray(o, d)
                  /\ Near(res.value.origin.w, One)
                  /\ Near(res.value.direction.w, 0)

C11_Witness ==
    /\ res.done
    /\ args.fn = "Ray::transform"
    /\ res.panicked
    /\ Near(mul_tuple(args.matrix, args.ray.origin).w, One)
    /\ ~Near(mul_tuple(args.matrix, args.ray.direction).w, 0)

\* ------------------------------------------------- Matrix<4>, entry by entry
\* a matrix is the tuple of its rows, m[row][col], counted from 1
determinant2(m) == FMul(m[1][1], m[2][2]) - FMul(m[1][2], m[2][1])

\* Matrix<3>::submatrix and Matrix<4>::submatrix: row and col are left out
submatrix(m, row, col) ==
    [r \in 1..(Len(m) - 1) |->
        [c \in 1..(Len(m) - 1) |->
            m[IF r >= row THEN r + 1 ELSE r][IF c >= col THEN c + 1 ELSE c]]]

minor3(m, row, col) == determinant2(submatrix(m, row, col))

cofactor3(m, row, col) ==
    IF (row + col) % 2 = 0 THEN minor3(m, row, col) ELSE -minor3(m, row, col)

determinant3(m) ==
    FMul(m[1][1], cofactor3(m, 1, 1)) + FMul(m[1][2], cofactor3(m, 1, 2))
        + FMul(m[1][3], cofactor3(m, 1, 3))

minor4(m, row, col) == determinant3(submatrix(m, row, col))

cofactor4(m, row, col) ==
    IF (row + col) % 2 = 0 THEN minor4(m, row, col) ELSE -minor4(m, row, col)

determinant4(m) ==
    FMul(m[1][1], cofactor4(m, 1, 1)) + FMul(m[1][2], cofactor4(m, 1, 2))
        + FMul(m[1][3], cofactor4(m, 1, 3)) + FMul(m[1][4], cofactor4(m, 1, 4))

is_invertible4(m) == determinant4(m) # 0

transpose(m) == [r \in 1..Len(m) |-> [c \in 1..Len(m) |-> m[c][r]]]

\* the quotients of Matrix<4>::inverse, whatever the determinant
Quotients(m) ==
    LET det == determinant4(m)
    IN  [r \in 1..4 |-> [c \in 1..4 |-> FDiv(cofactor4(m, c, r), det)]]

inverse4Unasserted(m) == Returned(Quotients(m))

\* Matrix<4>::inverse: the assertion, then the quotients
inverse4(m) == IF is_invertible4(m) THEN Returned(Quotients(m)) ELSE Panicked

\* the transform of a shape, entry by entry: a cube, a cylinder and a cone
\* hold theirs by rows, a sphere and a plane as translation * scaling
TransformOf(shape) ==
    IF shape.kind \in {"cube", "cylinder", "cone"} THEN shape.transform
    ELSE Rows(shape.transform)

ShapeIntersectTwice(shape, ray) ==
    LET inv == inverse4(TransformOf(shape))
    IN  IF inv.panicked THEN Panicked
        ELSE LET once == RayTransformBy(ray, inv.value)
                 local_ray == RayTransformBy(once.value, inv.value)
             IN  IF once.panicked \/ local_ray.panicked THEN Panicked
                 ELSE Returned(local_intersect(shape, local_ray.value))

\* Shape::intersect with its panics: of inverse, then of Ray::new in transform
ShapeIntersect(shape, ray) ==
    LET inv == inverse4(TransformOf(shape))
    IN  IF inv.panicked THEN Panicked
        ELSE LET local_ray == RayTransformBy(ray, inv.value)
             IN  IF local_ray.panicked THEN Panicked
                 ELSE Returned(local_intersect(shape, local_ray.value))

\* Shape::normal_at with the panic of inverse
ShapeNormalAt(shape, point) ==
    LET inv == inverse4(TransformOf(shape))
    IN  IF inv.panicked THEN Panicked
        ELSE LET local_point == mul_tuple(inv.value, point)
                 local_normal == local_normal_at(shape, local_point)
                 world_normal == mul_tuple(transpose(inv.value), local_normal)
             IN  Returned(normalize([world_normal EXCEPT !.w = 0]))

\* transforms a shape is given: invertible ones, and ones that flatten space
FnTransforms ==
    { identity, scaling(2 * One), scaling(32), translation(0, One, 0),
      Matrix(2 * One, 0, -One, 0), scaling(0), Matrix(0, 0, One, 0) }

FnShapes == { Shape(1, k, t, Plain) : k \in {"sphere", "plane"}, t \in FnTransforms }

InverseArgs == { [fn |-> "Matrix::inverse", matrix |-> m] : m \in Matrices4 }

IntersectArgs ==
    { [fn |-> "Shape::intersect", shape |-> s, ray |-> r] : s \in FnShapes, r \in Rays }

NormalAtArgs ==
    { [fn |-> "Shape::normal_at", shape |-> s, point |-> p] : s \in FnShapes, p \in Points }

call_inverse ==
    /\ args.fn = "Matrix::inverse"
    /\ ~res.done
    /\ res' = inverse4(args.matrix)
    /\ UNCHANGED <<args, worldVars, listVars, renderVars>>

call_intersect ==
    /\ args.fn = "Shape::intersect"
    /\ ~res.done
    /\ res' = ShapeIntersect(args.shape, args.ray)
    /\ UNCHANGED <<args, worldVars, listVars, renderVars>>

call_normal_at ==
    /\ args.fn = "Shape::normal_at"
    /\ ~res.done
    /\ res' = ShapeNormalAt(args.shape, args.point)
    /\ UNCHANGED <<args, worldVars, listVars, renderVars>>

\* the rows of m are linearly dependent, with coefficients -1, 0 and 1
Dependent(m) ==
    \E k \in [1..4 -> {-1, 0, 1}] :
        /\ \E r \in 1..4 : k[r] # 0
        /\ \A c \in 1..4 :
              k[1] * m[1][c] + k[2] * m[2][c] + k[3] * m[3][c] + k[4] * m[4][c] = 0

\* C12: Matrix<4>::inverse fails on its assertion whenever the determinant is
\* exactly zero and returns no matrix then, and returns one otherwise; so
\* Shape::intersect and Shape::normal_at fail on a shape whose transform is
\* singular.
C12_InverseFailsFast ==
    /\ (res.done /\ args.fn = "Matrix::inverse") =>
          /\ determinant4(args.matrix) = 0 <=> Dependent(args.matrix)
          /\ determinant4(args.matrix) = 0 => res = Panicked
          /\ determinant4(args.matrix) # 0 => ~res.panicked /\ Len(res.value) = 4
    /\ (res.done /\ args.fn \in {"Shape::intersect", "Shape::normal_at"}
          /\ Dependent(TransformOf(args.shape))) => res = Panicked

C12_Witness ==
    /\ res.done
    /\ args.fn = "Shape::normal_at"
    /\ args.shape.transform = Matrix(0, 0, One, 0)
    /\ res.panicked

\* ------------------------------------------------ cubes, cylinders, cones
\* Matrix::scaling with a factor for each axis, by rows
scaling3(x, y, z) ==
    << <<x, 0, 0, 0>>, <<0, y, 0, 0>>, <<0, 0, z, 0>>, <<0, 0, 0, One>> >>

\* a cube, a cylinder or a cone; a cube has no use for minimum and maximum
Solid(kind, transform, minimum, maximum) ==
    [id |-> 1, kind |-> kind, transform |-> transform, material |-> Plain,
     minimum |-> minimum, maximum |-> maximum]

SolidTransforms ==
    { Rows(identity), Rows(translation(0, One, 0)), scaling3(One, 2 * One, One),
      scaling3(2 * One, One, 32) }

\* the default extent, and one cut off at -1 and 1
Solids ==
    { Solid(k, t, e[1], e[2]) :
        k \in {"cube", "cylinder", "cone"}, t \in SolidTransforms,
        e \in { <<-INFINITY, INFINITY>>, <<-One, One>> } }

Coords == { -2 * One, -One, 0, One, 2 * One }

SolidArgs ==
    { [fn |-> "Shape::normal_at", shape |-> s, point |-> pt(x, y, z)] :
        s \in Solids, x \in Coords, y \in Coords, z \in Coords }

\* the point, in the space of the shape, lies on the shape
OnSurface(shape, p) ==
    LET dist == FMul(p.x, p.x) + FMul(p.z, p.z)
    IN  CASE shape.kind = "sphere" -> dist + FMul(p.y, p.y) = One
          [] shape.kind = "plane" -> p.y = 0
          [] shape.kind = "cube" -> Max(Max(Abs(p.x), Abs(p.y)), Abs(p.z)) = One
          [] shape.kind = "cylinder" ->
                /\ shape.minimum <= p.y /\ p.y <= shape.maximum
                /\ \/ dist = One
                   \/ dist < One /\ p.y \in {shape.minimum, shape.maximum}
          [] shape.kind = "cone" ->
                /\ shape.minimum <= p.y /\ p.y <= shape.maximum
                /\ \/ dist = FMul(p.y, p.y)
                   \/ dist < FMul(p.y, p.y) /\ p.y \in {shape.minimum, shape.maximum}

\* a vector of length one, to a sixteenth
IsUnitVector(n) ==
    /\ n.x # NaN /\ n.y # NaN /\ n.z # NaN
    /\ n.w = 0
    /\ Abs(magnitude(n) - One) <= One \div 16

LocalPoint(shape, point) == mul_tuple(inverse4(TransformOf(shape)).value, point)

\* C13: Shape::normal_at returns a vector of length one with w = 0 for a shape
\* of every kind, under every invertible transform, scalings that differ by
\* axis included, at every point of its surface, the apex of a cone included.
C13_NormalIsUnit ==
    (/\ res.done
     /\ args.fn = "Shape::normal_at"
     /\ ~res.panicked
     /\ OnSurface(args.shape, LocalPoint(args.shape, args.point)))
        => IsUnitVector(res.value)

\* what Shape::intersect came to, set against the ray carried into the space
\* of the shape by the closed form of the inverse
InShapeSpace(shape, ray) ==
    Ray(MMul(inverse(shape.transform), ray.origin),
        MMul(inverse(shape.transform), ray.direction))

\* C14: a shape with transform T, intersected with a ray R, returns exactly
\* the intersections, in the same order, that its local_intersect returns for
\* R.transform(inverse(T)): the inverse is applied once, and each t is a
\* distance along R itself, so that R.position(t) lies on the shape.
C14_IntersectInShapeSpace ==
    (res.done /\ args.fn = "Shape::intersect" /\ ~res.panicked) =>
        /\ res.value = local_intersect(args.shape, InShapeSpace(args.shape, args.ray))
        /\ \A i \in 1..Len(res.value) :
              /\ res.value[i].object = args.shape
              /\ OnSurface(args.shape,
                           MMul(inverse(args.shape.transform),
                                position(args.ray, res.value[i].t)))

C14_Witness ==
    /\ res.done
    /\ args.fn = "Shape::intersect"
    /\ ~res.panicked
    /\ args.shape.transform = Matrix(2 * One, 0, -One, 0)
    /\ Len(res.value) = 2
    /\ res.value # local_intersect(args.shape, args.ray)

\* ---------------------------------------------------------- Comps::schlick
\* eye vectors at 0, 25, 45, 90 and 180 degrees from the normal v(0, 1, 0)
Eyes == { v(0, One, 0), v(0, 58, 27), v(0, 45, 45), v(One, 0, 0), v(0, -One, 0) }

Indices == { One, 96, 2 * One }

SchlickArgs ==
    { [fn |-> "Comps::schlick",
       comps |-> [eyev |-> e, normalv |-> v(0, One, 0), n1 |-> n1, n2 |-> n2]] :
        e \in Eyes, n1 \in Indices, n2 \in Indices }

call_schlick ==
    /\ args.fn = "Comps::schlick"
    /\ ~res.done
    /\ res' = Returned(schlick(args.comps))
    /\ UNCHANGED <<args, worldVars, listVars, renderVars>>

\* r0 + (1 - r0)(1 - c)^5 with r0 = ((n1 - n2) / (n1 + n2))^2
Reflectance(n1, n2, c) ==
    LET r0 == FMul(FDiv(n1 - n2, n1 + n2), FDiv(n1 - n2, n1 + n2))
        d == One - c
    IN  r0 + FMul(One - r0, FMul(d, FMul(d, FMul(d, FMul(d, FMul(d, One))))))

\* C15: Comps::schlick returns exactly 1 when n1 > n2 and
\* (n1/n2)^2 (1 - cos^2) > 1, and otherwise r0 + (1 - r0)(1 - c)^5 with
\* r0 = ((n1 - n2)/(n1 + n2))^2 and c the cosine of theta_t when n1 > n2,
\* else the cosine of the angle between eye and normal.
C15_Schlick ==
    (res.done /\ args.fn = "Comps::schlick") =>
        LET n1 == args.comps.n1
            n2 == args.comps.n2
            cos == dot(args.comps.eyev, args.comps.normalv)
            ratio == FDiv(n1, n2)
            sin2_t == FMul(FMul(ratio, ratio), One - FMul(cos, cos))
        IN  /\ ~res.panicked
            /\ (n1 > n2 /\ sin2_t > One) => res.value = One
            /\ (n1 > n2 /\ sin2_t <= One) =>
                  res.value = Reflectance(n1, n2, FSqrt(One - sin2_t))
            /\ n1 <= n2 => res.value = Reflectance(n1, n2, cos)

\* below the critical angle, leaving the denser medium: the cosine of theta_t
\* is another than the cosine of the angle of incidence
C15_Witness ==
    /\ res.done
    /\ args.fn = "Comps::schlick"
    /\ args.comps.n1 > args.comps.n2
    /\ res.value # One
    /\ res.value # Reflectance(args.comps.n1, args.comps.n2,
                               dot(args.comps.eyev, args.comps.normalv))

\* ------------------------------------------- Material::lighting, shade_hit
\* Material::pattern of the builder: the material with Some(pattern)
WithPattern(m, pattern) ==
    [color |-> m.color, ambient |-> m.ambient, diffuse |-> m.diffuse,
     specular |-> m.specular, shininess |-> m.shininess, reflective |-> m.reflective,
     transparency |-> m.transparency, refractive_index |-> m.refractive_index,
     pattern |-> pattern]

Striped == WithPattern(Plain, stripe(color(One, 0, 0), color(0, 0, One)))

Graded == WithPattern(GlassMirror, gradient(BLACK, color(One, One, 32)))

LightRed == PointLight(pt(0, 10 * One, 0), color(One, 32, 0))

LightingArgs ==
    { [fn |-> "Material::lighting", material |-> m,
       object |-> Shape(1, "sphere", t, m), light |-> l, point |-> pt(x, One, 0),
       eyev |-> v(0, One, 0), normalv |-> v(0, One, 0), in_shadow |-> b] :
        m \in {Plain, GlassMirror, Striped, Graded}, t \in {identity, scaling(2 * One)},
        l \in {LightFar, LightMid, LightRed}, x \in {-One, -32, 0, 32, One},
        b \in BOOLEAN }

call_lighting ==
    /\ args.fn = "Material::lighting"
    /\ ~res.done
    /\ res' = Returned(lighting(args.material, args.object, args.light, args.point,
                                args.eyev, args.normalv, args.in_shadow))
    /\ UNCHANGED <<args, worldVars, listVars, renderVars>>

\* the hit of the ray in the world, prepared as color_at prepares it
HitComps(w, ray) ==
    LET is == world_intersect(w, ray)
    IN  prepare_computations(is[hit(is)], ray, is)

ShadeHitArgs ==
    UNION { { [fn |-> "World::shade_hit", world |-> w, ray |-> r, remaining |-> 1] :
                r \in { y \in Rays : hit(world_intersect(w, y)) # 0 } } :
            w \in { x \in Worlds : x.lights # <<>> } }

\* World::shade_hit: surface is its local variable of that name
call_shade_hit ==
    /\ args.fn = "World::shade_hit"
    /\ ~res.done
    /\ LET comps == HitComps(args.world, args.ray)
       IN  res' = IF \/ SurfacePanics(args.world, comps)
                     \/ ReflectedColorPanics(args.world, comps, args.remaining)
                     \/ RefractedColorPanics(args.world, comps, args.remaining)
                  THEN Panicked
                  ELSE Returned([surface |-> Surface(args.world, comps,
                                                     Len(args.world.lights)),
                                 color |-> ShadeHit(args.world, comps, args.remaining)])
    /\ UNCHANGED <<args, worldVars, listVars, renderVars>>

\* the colour of the surface at the point: of the pattern, if there is one
ColorOfSurface(material, object, point) ==
    IF "pattern" \in DOMAIN material
    THEN LET p == material.pattern
             x == FDiv(FDiv(point.x, object.transform.s), p.transform.s)
         IN  IF p.design = "Stripe"
             THEN IF \E k \in -4..4 : 2 * k * One <= x /\ x < (2 * k + 1) * One
                  THEN p.a ELSE p.b
             ELSE LET f == CHOOSE f \in 0..(One - 1) : \E k \in -8..8 : x = k * One + f
                  IN  color(p.a.red + FMul(p.b.red - p.a.red, f),
                            p.a.green + FMul(p.b.green - p.a.green, f),
                            p.a.blue + FMul(p.b.blue - p.a.blue, f))
    ELSE material.color

\* colour * intensity * ambient
AmbientTerm(material, object, light, point) ==
    LET c == ColorOfSurface(material, object, point)
    IN  color(FMul(FMul(c.red, light.intensity.red), material.ambient),
              FMul(FMul(c.green, light.intensity.green), material.ambient),
              FMul(FMul(c.blue, light.intensity.blue), material.ambient))

\* something of the world lies between the point and the light
Occluded(w, light, point) ==
    LET distance == magnitude(TSub(light.position, point))
        is == world_intersect(w, Ray(point, normalize(TSub(light.position, point))))
    IN  \E i \in 1..Len(is) : 0 <= is[i].t /\ is[i].t < distance

\* C16: with in_shadow, Material::lighting returns the ambient term alone,
\* the colour of the surface or of its pattern times the intensity of the
\* light times ambient; so the surface term of shade_hit, at a point in the
\* shadow of every light, is the sum of the ambient terms of the lights.
C16_ShadowIsAmbient ==
    /\ (res.done /\ args.fn = "Material::lighting" /\ args.in_shadow) =>
          res = Returned(AmbientTerm(args.material, args.object, args.light, args.point))
    /\ (res.done /\ args.fn = "World::shade_hit" /\ ~res.panicked) =>
          LET comps == HitComps(args.world, args.ray)
              lights == args.world.lights
          IN  (\A n \in 1..Len(lights) : Occluded(args.world, lights[n], comps.over_point))
                 => res.value.surface =
                       CSum([n \in 1..Len(lights) |->
                               AmbientTerm(comps.object.material, comps.object,
                                           lights[n], comps.point)])

\* a striped surface under a coloured light, in shadow
C16_Witness ==
    /\ res.done
    /\ args.fn = "Material::lighting"
    /\ args.in_shadow
    /\ args.material = Striped
    /\ args.light = LightRed
    /\ res.value = color(0, 0, 0)
    /\ lighting(args.material, args.object, args.light, args.point,
                args.eyev, args.normalv, FALSE) # res.value

\* a hit in the shadow of both lights of its world
C16_ShadeHitWitness ==
    /\ res.done
    /\ args.fn = "World::shade_hit"
    /\ ~res.panicked
    /\ Len(args.world.lights) = 2
    /\ \A n \in 1..2 : Occluded(args.world, args.world.lights[n],
                                HitComps(args.world, args.ray).over_point)
    /\ res.value.surface # BLACK

\* ------------------------------------------------------ Canvas::write_ppm
\* the most pixels of a canvas written as PPM
MaxCells == 7

\* the width MaxWidthWriter is made with
PpmWidth == 70

Min(a, b) == IF a <= b THEN a ELSE b

clip(c, lo, hi) ==
    color(Min(Max(c.red, lo), hi), Min(Max(c.green, lo), hi), Min(Max(c.blue, lo), hi))

\* f64::round of a * 255 for a >= 0, as u8
RoundU8(a) == (2 * 255 * a + One) \div (2 * One)

to_u8(c) ==
    LET k == clip(c, 0, One)
    IN  <<RoundU8(k.red), RoundU8(k.green), RoundU8(k.blue)>>

\* Display of an unsigned integer: its decimal digits, one character each
RECURSIVE Decimal(_)
Decimal(n) ==
    LET digit == <<"0", "1", "2", "3", "4", "5", "6", "7", "8", "9">>[(n % 10) + 1]
    IN  IF n < 10 THEN <<digit>> ELSE Decimal(n \div 10) \o <<digit>>

\* MaxWidthWriter: out is what has gone to the inner writer; hung is the loop
\* of write that flush_line cannot end, a line_buffer too long without a space
MaxWidthWriter(width) == [width |-> width, line_buffer |-> <<>>, out |-> <<>>, hung |-> FALSE]

flush_partial(w, i) ==
    [w EXCEPT !.out = w.out \o SubSeq(w.line_buffer, 1, i),
              !.line_buffer = SubSeq(w.line_buffer, i + 1, Len(w.line_buffer))]

Positions(w, b) == { i \in 1..Len(w.line_buffer) : w.line_buffer[i] = b }

flush_line(w) ==
    IF Positions(w, " ") = {} THEN w
    ELSE LET i == CHOOSE i \in Positions(w, " ") : \A j \in Positions(w, " ") : j <= i
         IN  flush_partial([w EXCEPT !.line_buffer[i] = "\n"], i)

\* while let Some(i) = line_buffer.iter().position(|&b| b == b'\n')
RECURSIVE FlushLines(_)
FlushLines(w) ==
    IF Positions(w, "\n") = {} THEN w
    ELSE LET i == CHOOSE i \in Positions(w, "\n") : \A j \in Positions(w, "\n") : i <= j
         IN  FlushLines(flush_partial(w, i))

\* while self.line_buffer.len() > self.width
RECURSIVE FlushLong(_)
FlushLong(w) ==
    IF Len(w.line_buffer) <= w.width THEN w
    ELSE IF flush_line(w) = w THEN [w EXCEPT !.hung = TRUE]
    ELSE FlushLong(flush_line(w))

writeUnwrapped(w, buf) ==
    IF w.hung THEN w
    ELSE FlushLines([w EXCEPT !.line_buffer = w.line_buffer \o buf])

\* impl Write for MaxWidthWriter: write
write(w, buf) ==
    IF w.hung THEN w
    ELSE FlushLong(FlushLines([w EXCEPT !.line_buffer = w.line_buffer \o buf]))

\* write_all of every piece that write! hands to the writer, in order
RECURSIVE WriteAll(_, _)
WriteAll(w, pieces) ==
    IF pieces = <<>> THEN w ELSE WriteAll(write(w, Head(pieces)), Tail(pieces))

\* impl Write for MaxWidthWriter: flush, called by drop
flush(w) == [w EXCEPT !.out = w.out \o w.line_buffer, !.line_buffer = <<>>]

\* "P3\n{} {}\n255\n": the literal pieces and the two numbers
HeaderPieces(cv) ==
    << <<"P", "3", "\n">>, Decimal(cv.width), <<" ">>, Decimal(cv.height),
       <<"\n", "2", "5", "5", "\n">> >>

\* "{r} {g} {b}", after a " " for every pixel of a row but the first
PixelPieces(c, i) ==
    (IF i > 1 THEN << <<" ">> >> ELSE <<>>)
        \o << Decimal(to_u8(c)[1]), <<" ">>, Decimal(to_u8(c)[2]), <<" ">>,
              Decimal(to_u8(c)[3]) >>

RECURSIVE RowPieces(_, _, _)
RowPieces(cv, y, i) ==
    IF i > cv.width THEN << <<"\n">> >>
    ELSE PixelPieces(cv.pixels[y * cv.width + i], i) \o RowPieces(cv, y, i + 1)

RECURSIVE DataPieces(_, _)
DataPieces(cv, y) ==
    IF y >= cv.height THEN <<>> ELSE RowPieces(cv, y, 1) \o DataPieces(cv, y + 1)

\* Canvas::write_ppm; chunks_exact(0) of a canvas of width 0 panics after the
\* header is written, and the guard is flushed as it is dropped
write_ppm(cv) ==
    LET header == WriteAll(MaxWidthWriter(PpmWidth), HeaderPieces(cv))
    IN  IF header.hung THEN NoRes
        ELSE IF cv.width = 0
        THEN [done |-> TRUE, panicked |-> TRUE, value |-> flush(header).out]
        ELSE LET data == WriteAll(header, DataPieces(cv, 0))
             IN  IF data.hung THEN NoRes ELSE Returned(flush(data).out)

PpmColors == { BLACK, color(6, 32, 0), color(2 * One, One, One) }

Canvases ==
    { [width |-> 0, height |-> h, pixels |-> <<>>] : h \in 0..1 }
        \cup UNION { [width : {d[1]}, height : {d[2]},
                       pixels : [1..(d[1] * d[2]) -> PpmColors]] :
                        d \in { e \in (1..MaxCells) \X (0..MaxCells) :
                                  e[1] * e[2] <= MaxCells } }

WritePpmArgs == { [fn |-> "Canvas::write_ppm", canvas |-> cv] : cv \in Canvases }

call_write_ppm ==
    /\ args.fn = "Canvas::write_ppm"
    /\ ~res.done
    /\ res' = write_ppm(args.canvas)
    /\ UNCHANGED <<args, worldVars, listVars, renderVars>>

\* the lengths of the lines of a text, the line feeds not counted
RECURSIVE LineLengths(_, _, _)
LineLengths(text, i, n) ==
    IF i > Len(text) THEN IF n > 0 THEN {n} ELSE {}
    ELSE IF text[i] = "\n" THEN {n} \cup LineLengths(text, i + 1, 0)
    ELSE LineLengths(text, i + 1, n + 1)

\* C17: no line of the text that Canvas::write_ppm writes is longer than 70
\* characters, whatever the canvas.
C17_LinesAtMost70 ==
    (res.done /\ args.fn = "Canvas::write_ppm") =>
        \A n \in LineLengths(res.value, 1, 0) : n <= 70

\* a row too long for one line, broken so that a line is exactly 70 long
C17_Witness ==
    /\ res.done
    /\ args.fn = "Canvas::write_ppm"
    /\ ~res.panicked
    /\ args.canvas.height = 1
    /\ 70 \in LineLengths(res.value, 1, 0)
    /\ Cardinality({ i \in 1..Len(res.value) : res.value[i] = "\n" }) = 5

\* reflected_color or refracted_color is about to run on a material that
\* reflects nothing, or lets nothing through
Opaque ==
    \/ /\ Running("reflected_color", "call")
       /\ Top.comps.object.material.reflective = 0
    \/ /\ Running("refracted_color", "call")
       /\ Top.comps.object.material.transparency = 0

\* C18: reflected_color returns black whenever the material's reflective is
\* 0, and refracted_color whenever its transparency is 0, whatever the
\* budget: the call returns at once, builds no secondary ray and does not
\* call color_at.
C18_BlackWithoutRay ==
    [][Opaque =>
          /\ stack' = Pop
          /\ returned'.fn = Top.fn
          /\ returned'.value = BLACK
          /\ ~returned'.nested
          /\ calls' = calls
          /\ ~panicked']_vars

C18_Witness ==
    /\ returned.fn = "refracted_color"
    /\ returned.comps.object.material.transparency = 0
    /\ returned.comps.object.material.reflective > 0
    /\ returned.remaining > 1
    /\ returned.value = BLACK
    /\ ~returned.nested

\* the Vec containers of prepare_computations as it breaks out of its loop
RECURSIVE ContainersAt(_, _, _, _)
ContainersAt(self, intersections, i, containers) ==
    IF i > Len(intersections) THEN containers
    ELSE LET x == intersections[i]
             after == Toggle(containers, x.object)
         IN  IF IntersectionEq(x, self) THEN after
             ELSE ContainersAt(self, intersections, i + 1, after)

Ids(shapes) == [i \in 1..Len(shapes) |-> shapes[i].id]

\* C19: prepare_computations toggles its containers by the identity of the
\* shape: on a list that enters and leaves every shape, the containers at the
\* k-th intersection are the shapes entered and not yet left, a shape being
\* the object it is; two objects of one kind, transform and material are two
\* containers.
C19_ContainersByIdentity ==
    (out.fn = "prepare_computations" /\ Traversal(xs)) =>
        Ids(ContainersAt(xs[out.k], xs, 1, <<>>)) = Ids(Occupied(xs, out.k))

\* ------------------------------------------------------- World::intersect
WorldIntersectArgs ==
    { [fn |-> "World::intersect", world |-> w, ray |-> r] : w \in Worlds, r \in Rays }

call_world_intersect ==
    /\ args.fn = "World::intersect"
    /\ ~res.done
    /\ res' = Returned(world_intersect(args.world, args.ray))
    /\ UNCHANGED <<args, worldVars, listVars, renderVars>>

\* what the o-th shape of the world returns for the ray
OfShape(o) == ShapeIntersect(args.world.objects[o], args.ray).value

\* how many intersections the shapes before the o-th return
RECURSIVE Before(_)
Before(o) == IF o = 1 THEN 0 ELSE Before(o - 1) + Len(OfShape(o - 1))

\* C20: World::intersect returns the intersections of every shape with the
\* ray, each as often as its shape returns it, none dropped, added or
\* filtered, those with negative t included, each with the shape it comes
\* from, in the order of the objects and, within a shape, of that shape: the
\* list is not sorted.
C20_WorldIntersectIsUnion ==
    (res.done /\ args.fn = "World::intersect") =>
        LET n == Len(args.world.objects)
        IN  /\ ~res.panicked
            /\ Len(res.value) = IF n = 0 THEN 0 ELSE Before(n) + Len(OfShape(n))
            /\ \A o \in 1..n : \A i \in 1..Len(OfShape(o)) :
                  /\ res.value[Before(o) + i] = OfShape(o)[i]
                  /\ res.value[Before(o) + i].object = args.world.objects[o]

\* two shapes, the second nearer than the first: the list falls where the
\* second shape begins, and holds an intersection behind the ray
C20_Witness ==
    /\ res.done
    /\ args.fn = "World::intersect"
    /\ Len(res.value) = 4
    /\ res.value[3].t < res.value[2].t
    /\ res.value[1].t < 0
    /\ res.value[1].object.id = 1
    /\ res.value[3].object.id = 2

\* ------------------------------------------------- World::refracted_color
\* a matte sphere of radius 4 around a light: every ray from within it hits it
Lantern == World(<<Shape(1, "sphere", scaling(4 * One), Matte)>>, <<LightMid>>)

\* the Comps of a hit on a sphere at pt(0, 1, 0), the eye at an angle
RefractComps ==
    { [t |-> One, object |-> Shape(2, "sphere", identity,
                                   Material(WHITE, 6, 58, 58, 2, 0, tr, n2)),
       point |-> pt(0, One, 0), over_point |-> pt(0, One + EPSILON, 0),
       under_point |-> pt(0, One - EPSILON, 0), eyev |-> e, normalv |-> v(0, One, 0),
       inside |-> FALSE, reflectv |-> reflect(TNeg(e), v(0, One, 0)),
       n1 |-> n1, n2 |-> n2] :
        e \in Eyes, n1 \in Indices, n2 \in Indices, tr \in {0, 32, One} }

RefractedColorArgs ==
    { [fn |-> "World::refracted_color", world |-> Lantern, comps |-> c, remaining |-> d] :
        c \in RefractComps, d \in 0..2 }

\* refracted_color gets as far as Ray::new for the refracted ray
RefractedColorTraces(comps, remaining) ==
    ~RefractedIsBlack(comps, remaining) /\ ~(Sin2T(comps) > One)

\* World::refracted_color: the colour, and the rays it built itself
call_refracted_color ==
    /\ args.fn = "World::refracted_color"
    /\ ~res.done
    /\ res' = IF RefractedColorPanics(args.world, args.comps, args.remaining)
              THEN Panicked
              ELSE Returned([color |-> RefractedColor(args.world, args.comps,
                                                      args.remaining),
                             rays |-> IF RefractedColorTraces(args.comps, args.remaining)
                                      THEN 1 ELSE 0])
    /\ UNCHANGED <<args, worldVars, listVars, renderVars>>

\* (n1/n2)^2 (1 - (eyev . normalv)^2) > 1
TotalInternalReflection(comps) ==
    LET ratio == FDiv(comps.n1, comps.n2)
        cos == dot(comps.eyev, comps.normalv)
    IN  FMul(FMul(ratio, ratio), One - FMul(cos, cos)) > One

\* C21: refracted_color returns black and traces no refraction ray whenever
\* (n1/n2)^2 (1 - (eyev . normalv)^2) > 1, at every positive budget and every
\* transparency; and whenever schlick returns 1 through its branch
\* sin2_t > 1 for a Comps, refracted_color returns black for that Comps.
C21_BlackUnderTotalReflection ==
    (res.done /\ args.fn = "World::refracted_color") =>
        /\ (TotalInternalReflection(args.comps) /\ args.remaining > 0) =>
              res = Returned([color |-> BLACK, rays |-> 0])
        /\ (/\ args.comps.n1 > args.comps.n2
            /\ FMul(powi(FDiv(args.comps.n1, args.comps.n2), 2),
                    One - powi(dot(args.comps.eyev, args.comps.normalv), 2)) > One
            /\ schlick(args.comps) = One) =>
              res = Returned([color |-> BLACK, rays |-> 0])

\* total internal reflection in a fully transparent shape, budget to spare,
\* where the ray that is not traced would have brought a colour
C21_Witness ==
    /\ res.done
    /\ args.fn = "World::refracted_color"
    /\ TotalInternalReflection(args.comps)
    /\ args.remaining = 2
    /\ args.comps.object.material.transparency = One
    /\ res.value.color = BLACK
    /\ ColorAt(args.world, RefractRay(args.comps), 1) # BLACK

\* ------------------------------------- Material::lighting, light and eye
\* lights level with the point pt(0, 1, 0), above it, aslant and below it
AngleLights ==
    { PointLight(pt(x, y, 0), color(One, 32, One)) :
        x \in {0, 10 * One}, y \in {-9 * One, One, 11 * One} } \ {PointLight(pt(0, One, 0), color(One, 32, One))}

AngleEyes == { v(0, One, 0), v(One, 0, 0), v(-One, 0, 0), v(-45, 45, 0), v(45, 45, 0) }

AngleArgs ==
    { [fn |-> "Material::lighting", material |-> m,
       object |-> Shape(1, "plane", translation(0, One, 0), m), light |-> l,
       point |-> pt(0, One, 0), eyev |-> e, normalv |-> v(0, One, 0),
       in_shadow |-> FALSE] :
        m \in {Plain, GlassMirror}, l \in AngleLights, e \in AngleEyes }

\* the cosines of lighting, from the arguments of the call
LightCos == dot(normalize(TSub(args.light.position, args.point)), args.normalv)

EyeCos ==
    LET lightv == normalize(TSub(args.light.position, args.point))
        mirrored == TSub(TMul(args.normalv, 2 * dot(lightv, args.normalv)), lightv)
    IN  dot(mirrored, args.eyev)

Scaled(c, a, b) == color(FMul(FMul(c.red, a), b), FMul(FMul(c.green, a), b), FMul(FMul(c.blue, a), b))

\* effective colour * diffuse * cosine of the light
DiffuseTerm ==
    Scaled(CMulC(ColorOfSurface(args.material, args.object, args.point),
                 args.light.intensity), args.material.diffuse, LightCos)

\* intensity * specular * cosine of the eye to the power of shininess
SpecularTerm ==
    Scaled(args.light.intensity, args.material.specular,
           powi(EyeCos, args.material.shininess))

AmbientOfCall == AmbientTerm(args.material, args.object, args.light, args.point)

\* C22: out of shadow, lighting adds no diffuse term when lightv . normalv
\* <= 0, and no specular term when the cosine of the reflection to the eye is
\* <= 0 or the light is behind the surface (lightv . normalv < 0); the other
\* terms are in the result as they are.
C22_NoTermFromBehind ==
    (res.done /\ args.fn = "Material::lighting" /\ ~args.in_shadow) =>
        /\ LightCos < 0 => res.value = AmbientOfCall
        /\ (LightCos = 0 /\ EyeCos > 0) => res.value = CAdd(AmbientOfCall, SpecularTerm)
        /\ (LightCos = 0 /\ EyeCos <= 0) => res.value = AmbientOfCall
        /\ (LightCos > 0 /\ EyeCos <= 0) => res.value = CAdd(AmbientOfCall, DiffuseTerm)

\* the light aslant in front of the surface, its reflection away from the eye
C22_Witness ==
    /\ res.done
    /\ args.fn = "Material::lighting"
    /\ ~args.in_shadow
    /\ LightCos > 0
    /\ EyeCos < 0
    /\ DiffuseTerm # BLACK
    /\ res.value = CAdd(AmbientOfCall, DiffuseTerm)

\* the light level with the surface, the eye in its reflection
C22_GrazingWitness ==
    /\ res.done
    /\ args.fn = "Material::lighting"
    /\ ~args.in_shadow
    /\ LightCos = 0
    /\ EyeCos > 0
    /\ res.value # AmbientOfCall

\* ------------------------------------- Cone::local_intersect
ConeShape(minimum, maximum, closed) ==
    [id |-> 1, kind |-> "cone", transform |-> Rows(identity), material |-> Plain,
     minimum |-> minimum, maximum |-> maximum, closed |-> closed]

\* check_cap of cone.rs
check_cap(ray, time, radius) ==
    LET x == ray.origin.x + FMul(time, ray.direction.x)
        z == ray.origin.z + FMul(time, ray.direction.z)
    IN  powi(x, 2) + powi(z, 2) <= radius

\* intersect_caps of cone.rs
intersect_caps(cone, ray) ==
    IF ~cone.closed \/ fuzzy_eq(ray.direction.y, 0) THEN <<>>
    ELSE LET lower == FDiv(cone.minimum - ray.origin.y, ray.direction.y)
             upper == FDiv(cone.maximum - ray.origin.y, ray.direction.y)
         IN  (IF check_cap(ray, lower, Abs(cone.minimum)) THEN <<lower>> ELSE <<>>)
             \o (IF check_cap(ray, upper, Abs(cone.maximum)) THEN <<upper>> ELSE <<>>)

\* the times Cone::local_intersect pushes before it looks at the caps
ConeWalls(cone, ray) ==
    LET o == ray.origin
        d == ray.direction
        a == powi(d.x, 2) - powi(d.y, 2) + powi(d.z, 2)
        b == 2 * FMul(o.x, d.x) - 2 * FMul(o.y, d.y) + 2 * FMul(o.z, d.z)
        c == powi(o.x, 2) - powi(o.y, 2) + powi(o.z, 2)
        a_zero == fuzzy_eq(a, 0)
        b_zero == fuzzy_eq(b, 0)
        disc == powi(b, 2) - 4 * FMul(a, c)
        r0 == FDiv(-b - FSqrt(disc), 2 * a)
        r1 == FDiv(-b + FSqrt(disc), 2 * a)
        t0 == IF r0 > r1 THEN r1 ELSE r0
        t1 == IF r0 > r1 THEN r0 ELSE r1
        y0 == o.y + FMul(t0, d.y)
        y1 == o.y + FMul(t1, d.y)
    IN  IF a_zero /\ b_zero THEN [returned |-> TRUE, ts |-> <<>>, roots |-> 0]
        ELSE IF a_zero THEN [returned |-> FALSE, ts |-> <<FDiv(-c, 2 * b)>>, roots |-> 1]
        ELSE IF disc < 0 THEN [returned |-> TRUE, ts |-> <<>>, roots |-> 2]
        ELSE [returned |-> FALSE,
              ts |-> (IF cone.minimum < y0 /\ y0 < cone.maximum THEN <<t0>> ELSE <<>>)
                     \o (IF cone.minimum < y1 /\ y1 < cone.maximum THEN <<t1>> ELSE <<>>),
              roots |-> 2]

\* Cone::local_intersect: the intersections, how many of them are of the
\* side wall (they come first), and which branch found them
ConeLocalIntersect(cone, ray) ==
    LET walls == ConeWalls(cone, ray)
        ts == IF walls.returned THEN <<>> ELSE walls.ts \o intersect_caps(cone, ray)
    IN  [xs |-> [i \in 1..Len(ts) |-> Intersection(ts[i], cone)],
         walls |-> Len(walls.ts), roots |-> walls.roots]

\* the default cone, the closed one of the tests, and two cut off elsewhere
Cones ==
    { ConeShape(-INFINITY, INFINITY, FALSE), ConeShape(-32, 32, TRUE),
      ConeShape(One, 2 * One, FALSE), ConeShape(-2 * One, -One, TRUE) }

ConeRays ==
    { Ray(o, d) :
        o \in { pt(0, 0, -One), pt(0, 0, -5 * One), pt(One, One, -5 * One),
                pt(0, 0, -16), pt(0, 3 * One, -One) },
        d \in { v(0, 0, One), v(0, One, One), v(0, 45, 45), v(0, One, 0),
                v(0, -One, One), v(-32, -One, One) } }

ConeArgs ==
    { [fn |-> "Cone::local_intersect", shape |-> s, ray |-> r] :
        s \in Cones, r \in ConeRays }

call_cone_local_intersect ==
    /\ args.fn = "Cone::local_intersect"
    /\ ~res.done
    /\ res' = Returned(ConeLocalIntersect(args.shape, args.ray))
    /\ UNCHANGED <<args, worldVars, listVars, renderVars>>

\* the height at which an intersection of the call lies on its ray
HeightAt(i) == args.ray.origin.y + FMul(res.value.xs[i].t, args.ray.direction.y)

\* C23: every intersection of the side wall that Cone::local_intersect
\* reports lies at a height strictly between minimum and maximum, with two
\* roots and with the single root of a ray parallel to a nappe.
C23_WallsWithinExtent ==
    (res.done /\ args.fn = "Cone::local_intersect") =>
        \A i \in 1..res.value.walls :
            args.shape.minimum < HeightAt(i) /\ HeightAt(i) < args.shape.maximum

\* the same of the two roots of the quadratic alone
C23_TwoRootsWithinExtent ==
    (res.done /\ args.fn = "Cone::local_intersect" /\ res.value.roots = 2) =>
        \A i \in 1..res.value.walls :
            args.shape.minimum < HeightAt(i) /\ HeightAt(i) < args.shape.maximum

\* two roots, one of them cut off by the extent of the cone
C23_TwoRootsWitness ==
    /\ res.done
    /\ args.fn = "Cone::local_intersect"
    /\ res.value.roots = 2
    /\ res.value.walls = 1
    /\ args.shape.minimum > -INFINITY

\* ------------------------------------- Canvas::write_pixel, call after call
MaxWrites == 3

\* Canvas::pixel_at, when the index is within the Vec
pixel_at(cv, x, y) == cv.pixels[PixelIndex(cv, x, y) + 1]

\* the coordinates handed to write_pixel: those of the canvas and one beyond
WriteCoords == 0..2

InitCanvas ==
    /\ canvas \in { Canvas(w, h) : w \in 1..2, h \in 1..2 }
    /\ writes = <<>>
    /\ panicked = FALSE
    /\ world = World(<<>>, <<>>)
    /\ camera = <<>>
    /\ rpc = "idle"
    /\ pending = {}
    /\ pixels = <<>>
    /\ stack = <<>>
    /\ returned = NoReturn
    /\ shadowed = FALSE
    /\ call = NoCall
    /\ calls = NoCalls
    /\ prep = NoPrep
    /\ ListIdle
    /\ FnIdle

\* canvas.write_pixel(x, y, color): the Vec panics on an index beyond its end
call_write_pixel ==
    /\ ~panicked
    /\ Len(writes) < MaxWrites
    /\ \E x \in WriteCoords, y \in WriteCoords, c \in {WHITE, color(One, 0, 0)} :
          IF PixelIndex(canvas, x, y) >= Len(canvas.pixels)
          THEN /\ panicked' = TRUE
               /\ UNCHANGED <<canvas, writes>>
          ELSE /\ canvas' = write_pixel(canvas, x, y, c)
               /\ writes' = Append(writes, <<x, y, c>>)
               /\ UNCHANGED panicked
    /\ UNCHANGED <<camera, rpc, pending, pixels, listVars, fnVars>>
    /\ UNCHANGED <<world, stack, returned, shadowed, call, calls, prep>>

NextCanvas == call_write_pixel

SpecCanvas == InitCanvas /\ [][NextCanvas]_vars

\* the colour of the last write_pixel(x, y, _) among the calls, BLACK if none
LastWritten(x, y) ==
    LET at == { i \in 1..Len(writes) : writes[i][1] = x /\ writes[i][2] = y }
    IN  IF at = {} THEN BLACK
        ELSE writes[CHOOSE i \in at : \A j \in at : j <= i][3]

\* C24: after any sequence of write_pixel calls, pixel_at(x, y) is the last
\* colour written to (x, y), or black if none was: no call changes a pixel
\* other than its own, and a call with x not below width or y not below height
\* changes none.
C24_PixelIsLastWritten ==
    \A x \in 0..(canvas.width - 1), y \in 0..(canvas.height - 1) :
        pixel_at(canvas, x, y) = LastWritten(x, y)

\* the same of the calls within the canvas alone
C24_WithinCanvas ==
    (\A i \in 1..Len(writes) : writes[i][1] < canvas.width /\ writes[i][2] < canvas.height) =>
        \A x \in 0..(canvas.width - 1), y \in 0..(canvas.height - 1) :
            pixel_at(canvas, x, y) = LastWritten(x, y)

\* a pixel written twice within the canvas
C24_WithinWitness ==
    /\ Len(writes) = 3
    /\ writes[1][1] = writes[3][1] /\ writes[1][2] = writes[3][2]
    /\ writes[1][3] # writes[3][3]
    /\ \A i \in 1..Len(writes) : writes[i][1] < canvas.width /\ writes[i][2] < canvas.height

\* C25: of several intersections with the same least non-negative t, hit
\* returns the one that comes first in the list.
C25_HitIsFirstOfTies ==
    (out.fn = "hit" /\ out.h # 0) =>
        \A j \in 1..Len(xs) :
            (xs[j].t >= 0 /\ xs[j].t = xs[out.h].t) => out.h <= j

\* the hit has its t in common with a later intersection, of another object
C25_Witness ==
    /\ out.fn = "hit"
    /\ out.h # 0
    /\ \E j \in (out.h + 1)..Len(xs) :
          xs[j].t = xs[out.h].t /\ xs[j].object.id # xs[out.h].object.id

\* ------------------------------------- Intersection::prepare_computations
\* Cone::default() and two spheres and a plane
PrepShapes ==
    { Shape(1, "sphere", identity, Glass), Shape(1, "sphere", scaling(2 * One), Plain),
      Shape(1, "plane", translation(0, -One, 0), Plain),
      [id |-> 1, kind |-> "cone", transform |-> identity, material |-> Plain,
       minimum |-> -INFINITY, maximum |-> INFINITY, closed |-> FALSE] }

PrepRays ==
    { Ray(o, d) :
        o \in { pt(0, 0, -5 * One), pt(0, 0, 0), pt(0, One, -5 * One), pt(0, 32, 0) },
        d \in { v(0, 0, One), v(0, -One, 0), v(0, -45, 45) } }

\* what the shape's intersect returns for the ray; the cone is not transformed
PrepIntersections(shape, ray) ==
    IF shape.kind = "cone" THEN ConeLocalIntersect(shape, ray).xs
    ELSE intersect(shape, ray)

PrepareArgs ==
    UNION { { [fn |-> "Intersection::prepare_computations", ray |-> r,
               intersections |-> PrepIntersections(s, r), k |-> k] :
                k \in 1..Len(PrepIntersections(s, r)) } :
            s \in PrepShapes, r \in PrepRays }

call_prepare ==
    /\ args.fn = "Intersection::prepare_computations"
    /\ ~res.done
    /\ res' = Returned(prepare_computations(args.intersections[args.k], args.ray,
                                            args.intersections))
    /\ UNCHANGED <<args, worldVars, listVars, renderVars>>

\* the normal of the object at the point of the call's intersection
NormalOfCall ==
    normal_at(args.intersections[args.k].object,
              position(args.ray, args.intersections[args.k].t))

\* normalv . eyev >= 0, and over_point and under_point EPSILON along normalv
\* on either side of point
CompsInvariants(comps) ==
    /\ IsNumber(comps.normalv)
    /\ comps.inside = (dot(NormalOfCall, comps.eyev) < 0)
    /\ comps.normalv = (IF comps.inside THEN TNeg(NormalOfCall) ELSE NormalOfCall)
    /\ dot(comps.normalv, comps.eyev) >= 0
    /\ TSub(comps.over_point, comps.point) = TMul(comps.normalv, EPSILON)
    /\ TSub(comps.point, comps.under_point) = TMul(comps.normalv, EPSILON)
    /\ TSub(comps.over_point, comps.point) = TSub(comps.point, comps.under_point)

\* C26: in every Comps of prepare_computations, inside is true exactly when
\* the normal . eyev < 0, normalv is then the negated normal, so that
\* normalv . eyev >= 0 always, and over_point = point + EPSILON * normalv and
\* under_point = point - EPSILON * normalv lie at the same distance on
\* opposite sides of point.
C26_CompsInvariants ==
    (res.done /\ args.fn = "Intersection::prepare_computations") =>
        CompsInvariants(res.value)

\* the same where the normal of the object is a number
C26_WhereNormalIsNumber ==
    (res.done /\ args.fn = "Intersection::prepare_computations" /\ IsNumber(NormalOfCall)) =>
        CompsInvariants(res.value)

\* a hit from the inside, the normal turned round
C26_InsideWitness ==
    /\ res.done
    /\ args.fn = "Intersection::prepare_computations"
    /\ res.value.inside
    /\ dot(res.value.normalv, res.value.eyev) > 0
    /\ res.value.over_point # res.value.under_point

\* ------------------------------------- World::color_at and Ray::new
\* a light EPSILON above the origin, where the over_point of a hit at the
\* origin of a floor lies, and one far above
LightAtOverPoint == PointLight(pt(0, EPSILON, 0), WHITE)

LightAbove == PointLight(pt(0, 10 * One, 0), WHITE)

Floors ==
    { World(<<Shape(1, k, identity, m)>>, l) :
        k \in {"plane", "sphere"}, m \in {Plain, Mirror, Glass, GlassMirror},
        l \in { <<LightAbove>>, <<LightAtOverPoint>>, <<LightAbove, LightAtOverPoint>> } }

FloorRays ==
    { Ray(pt(0, One, 0), v(0, -One, 0)), Ray(pt(0, 2 * One, 0), v(0, -One, 0)),
      Ray(pt(0, One, -5 * One), v(0, -45, 45)), Ray(pt(One, -One, 0), v(0, One, 0)),
      Ray(pt(0, 0, -5 * One), v(0, 0, One)) }

ColorAtArgs ==
    { [fn |-> "World::color_at", world |-> w, ray |-> r, remaining |-> d] :
        w \in Floors, r \in FloorRays, d \in 0..2 }

\* World::color_at with the assertions of the rays it makes
call_world_color_at ==
    /\ args.fn = "World::color_at"
    /\ ~res.done
    /\ res' = IF ColorAtPanics(args.world, args.ray, args.remaining) THEN Panicked
              ELSE Returned(ColorAt(args.world, args.ray, args.remaining))
    /\ UNCHANGED <<args, worldVars, listVars, renderVars>>

C27_ReturnsWitness ==
    /\ res.done
    /\ args.fn = "World::color_at"
    /\ ~res.panicked
    /\ args.world.objects[1].material.reflective > 0
    /\ res.value # BLACK

\* ------------------------------------- the budget of the recursion
\* frame i of the stack is a color_at called by reflected_color or refracted_color
Secondary(i) ==
    /\ stack[i].fn = "color_at"
    /\ stack[i - 1].fn \in {"reflected_color", "refracted_color"}

\* C28: the u8 budget never underflows: reflected_color and refracted_color
\* compute remaining - 1 for color_at only with remaining >= 1, so the budget
\* handed on is one less and never wraps round to 255.
C28_BudgetNeverUnderflows ==
    \A i \in 2..Len(stack) :
        Secondary(i) =>
            /\ stack[i - 1].remaining >= 1
            /\ stack[i].remaining = stack[i - 1].remaining - 1

\* the last unit of the budget is handed on: a refraction with remaining = 1
\* that came of a reflection
C28_Witness ==
    /\ Len(stack) >= 4
    /\ Secondary(Len(stack))
    /\ stack[Len(stack) - 1].fn = "refracted_color"
    /\ stack[Len(stack) - 1].remaining = 1
    /\ Top.remaining = 0
    /\ \E i \in 2..(Len(stack) - 2) : Secondary(i) /\ stack[i - 1].fn = "reflected_color"

\* ------------------------------------- Matrix::is_invertible
\* Matrix<2>::is_invertible
is_invertible2(m) == determinant2(m) = 0

\* Matrix<3>::is_invertible
is_invertible3(m) == determinant3(m) = 0

Matrices2 ==
    { << <<a, b>>, <<c, d>> >> : a \in {0, One, 2 * One}, b \in {0, One},
                                 c \in {0, One}, d \in {0, One, -One} }

Matrices3 ==
    { << <<a, 0, b>>, <<0, One, c>>, <<b, c, d>> >> :
        a \in {0, One, 2 * One}, b \in {0, One}, c \in {0, One}, d \in {0, One, -One} }

InvertibleArgs ==
    { [fn |-> "Matrix::is_invertible", size |-> 2, matrix |-> m] : m \in Matrices2 }
    \cup { [fn |-> "Matrix::is_invertible", size |-> 3, matrix |-> m] : m \in Matrices3 }
    \cup { [fn |-> "Matrix::is_invertible", size |-> 4, matrix |-> m] : m \in Matrices4 }

call_is_invertible ==
    /\ args.fn = "Matrix::is_invertible"
    /\ ~res.done
    /\ res' = Returned(CASE args.size = 2 -> is_invertible2(args.matrix)
                         [] args.size = 3 -> is_invertible3(args.matrix)
                         [] OTHER -> is_invertible4(args.matrix))
    /\ UNCHANGED <<args, worldVars, listVars, renderVars>>

\* the determinant of the matrix of the call, of its size
DeterminantOfCall ==
    CASE args.size = 2 -> determinant2(args.matrix)
      [] args.size = 3 -> determinant3(args.matrix)
      [] OTHER -> determinant4(args.matrix)

\* C29: is_invertible returns true exactly when the determinant is not zero,
\* for matrices of size 2, 3 and 4.
C29_InvertibleIffDeterminant ==
    (res.done /\ args.fn = "Matrix::is_invertible") =>
        (res.value = (DeterminantOfCall # 0))

\* the same of the matrices of size 4 alone
C29_OfSize4 ==
    (res.done /\ args.fn = "Matrix::is_invertible" /\ args.size = 4) =>
        (res.value = (DeterminantOfCall # 0))

\* a matrix of size 4 with determinant zero, and one without
C29_Size4Witness ==
    /\ res.done
    /\ args.fn = "Matrix::is_invertible"
    /\ args.size = 4
    /\ DeterminantOfCall = 0
    /\ ~res.value

\* ------------------------------------- MaxWidthWriter, write after write
\* n bytes b
Bytes(b, n) == [i \in 1..n |-> b]

\* what is handed to one write: words, a space, a line feed, a word longer
\* than the width and a line longer than the width
Buffers ==
    { Bytes("a", 40), <<"2", "5", "5">>, <<" ">>, <<"\n">>,
      Bytes("a", 30) \o <<" ">> \o Bytes("b", 45), Bytes("a", PpmWidth + 1) }

WriterArgs ==
    { [fn |-> "MaxWidthWriter::write", bufs |-> s] :
        s \in UNION { [1..n -> Buffers] : n \in 1..3 } }

\* MaxWidthWriter::new(70, writer) and the writes, in order; hung in the value
\* tells that one of them did not return
call_write ==
    /\ args.fn = "MaxWidthWriter::write"
    /\ ~res.done
    /\ res' = Returned(WriteAll(MaxWidthWriter(PpmWidth), args.bufs))
    /\ UNCHANGED <<args, worldVars, listVars, renderVars>>

\* the bytes of the pieces, one after the other
RECURSIVE Concat(_)
Concat(pieces) == IF pieces = <<>> THEN <<>> ELSE Head(pieces) \o Concat(Tail(pieces))

\* text is written, but for spaces that have become line feeds
WrappedOf(text, written) ==
    /\ Len(text) = Len(written)
    /\ \A i \in 1..Len(text) :
          text[i] = written[i] \/ (written[i] = " " /\ text[i] = "\n")

\* what write_ppm hands to its writer for the canvas
PpmPieces(cv) == HeaderPieces(cv) \o DataPieces(cv, 0)

\* C30: the writer only replaces a space by a line feed: after any writes,
\* what it has emitted followed by what it has buffered is what was written,
\* but for spaces replaced by line feeds, and every write has returned; once
\* write_ppm has returned, everything is emitted and the text ends with a
\* line feed.
C30_WriterKeepsBytes ==
    /\ (res.done /\ args.fn = "MaxWidthWriter::write") =>
          /\ ~res.value.hung
          /\ WrappedOf(res.value.out \o res.value.line_buffer, Concat(args.bufs))
    /\ (res.done /\ args.fn = "Canvas::write_ppm" /\ ~res.panicked) =>
          /\ WrappedOf(res.value, Concat(PpmPieces(args.canvas)))
          /\ res.value[Len(res.value)] = "\n"

\* the same of the writes of write_ppm alone
C30_OfWritePpm ==
    (res.done /\ args.fn = "Canvas::write_ppm" /\ ~res.panicked) =>
        /\ WrappedOf(res.value, Concat(PpmPieces(args.canvas)))
        /\ res.value[Len(res.value)] = "\n"

\* write_ppm has returned a text in which a space has become a line feed
C30_WrappedWitness ==
    /\ res.done
    /\ args.fn = "Canvas::write_ppm"
    /\ ~res.panicked
    /\ res.value # Concat(PpmPieces(args.canvas))

\* ------------------------------------- the library, one call at a time
FnArgs ==
    NewArgs
    \cup TransformArgs
    \cup InverseArgs
    \cup IntersectArgs
    \cup NormalAtArgs
    \cup SolidArgs
    \cup SchlickArgs
    \cup LightingArgs
    \cup ShadeHitArgs
    \cup WritePpmArgs
    \cup WorldIntersectArgs
    \cup RefractedColorArgs
    \cup AngleArgs
    \cup ConeArgs
    \cup PrepareArgs
    \cup ColorAtArgs
    \cup InvertibleArgs
    \cup WriterArgs

InitFn ==
    /\ args \in FnArgs
    /\ res = NoRes
    /\ WorldIdle
    /\ ListIdle
    /\ RenderIdle

NextFn ==
    \/ call_new
    \/ call_transform
    \/ call_inverse
    \/ call_intersect
    \/ call_normal_at
    \/ call_schlick
    \/ call_lighting
    \/ call_shade_hit
    \/ call_write_ppm
    \/ call_world_intersect
    \/ call_refracted_color
    \/ call_cone_local_intersect
    \/ call_prepare
    \/ call_world_color_at
    \/ call_is_invertible
    \/ call_write

SpecFn == InitFn /\ [][NextFn]_vars

====
